---- MODULE Spec2Model ----
(***************************************************************************)
(* NEVERHANG v2.0 of systemd-mcp: the circuit breaker, the health monitor, *)
(* the adaptive timeout and the A.L.A.N. store they share, together with   *)
(* the command-dispatch helper of the MCP server.                          *)
(*                                                                         *)
(* Time is the value of Date.now() in milliseconds.  It starts at 1 (the   *)
(* clock of a running process is never 0) and advances by the Tick action. *)
(***************************************************************************)
EXTENDS Integers, Sequences, FiniteSets

VARIABLES
  now,              \* Date.now()
  adaptive_timeout, \* NeverhangConfig.adaptive_timeout
  circuit,          \* CircuitBreaker.state (in memory)
  row,              \* the singleton row of table circuit_state
  command_history,  \* table command_history, in insertion order
  health_checks,    \* table health_checks, in insertion order
  health,           \* HealthMonitor.state (in memory)
  probe,            \* the ping() in flight, if any
  loop,             \* HealthMonitor.intervalId, the timers, the check callback
  permissions,      \* config.permissions of the MCP server
  fallback,         \* isHaikuEnabled(config): fallback enabled, API key set
  call,             \* the tool invocation in flight in the MCP server
  issued,           \* the commands that invocation handed to runCommand
  response,         \* the last response a tool handler returned
  trials,           \* the calls canExecute() admitted that are still running
  lastOp            \* the last call made by a caller and what it returned

vars == <<now, adaptive_timeout, circuit, row, command_history, health_checks,
          health, probe, loop, permissions, fallback, call, issued, response,
          trials, lastOp>>

cbVars == <<circuit, row>>
hmVars == <<health, probe, health_checks, loop>>
cfgVars == <<adaptive_timeout, permissions, fallback>>
srvVars == <<call, issued, response, trials>>

----------------------------------------------------------------------------
\* Bounds of the model and the configuration the model is instantiated with.

\* The clock stops advancing here.
MaxTime == 8
\* The clock stops advancing here in the specifications that log outcomes.
MaxTimeLogged == 5
\* No failure is pushed onto a failure list that already holds this many.
MaxFailures == 4
\* NeverhangConfig.circuit_failure_threshold as configured (default 5).
circuit_failure_threshold == 3
\* NeverhangConfig.circuit_failure_window_ms as configured (default 60000).
circuit_failure_window_ms == 3
\* NeverhangConfig.circuit_open_duration_ms as configured (default 30000).
circuit_open_duration_ms == 2
\* NeverhangConfig.circuit_recovery_threshold as configured (default 2).
circuit_recovery_threshold == 2

\* null of a nullable number (a timestamp or a latency is never negative).
NULL == -1

CircuitStates == {"closed", "open", "half_open"}

----------------------------------------------------------------------------
\* A.L.A.N. store: table circuit_state.

\* `x ?? null` of a field of a Partial<CircuitStateRow>, where absent reads as
\* undefined: the supplied value, or `dflt`.
Supplied(p, k, dflt) == IF k \in DOMAIN p THEN p[k] ELSE dflt

\* UPDATE circuit_state SET state = COALESCE(?, state), failure_count =
\* COALESCE(?, failure_count), last_failure_at = ?, opened_at = ?,
\* recovery_successes = COALESCE(?, recovery_successes), updated_at = ?
saveCircuitState(r, p, t) ==
  [ state              |-> Supplied(p, "state", r.state),
    failure_count      |-> Supplied(p, "failure_count", r.failure_count),
    last_failure_at    |-> Supplied(p, "last_failure_at", NULL),
    opened_at          |-> Supplied(p, "opened_at", NULL),
    recovery_successes |-> Supplied(p, "recovery_successes", r.recovery_successes),
    updated_at         |-> t ]

\* INSERT OR IGNORE INTO circuit_state (id, state, updated_at) VALUES (1,
\* 'closed', now) on an empty table, with the columns' defaults.
FirstRow(t) ==
  [ state |-> "closed", failure_count |-> 0, last_failure_at |-> NULL,
    opened_at |-> NULL, recovery_successes |-> 0, updated_at |-> t ]

\* Table circuit_state without a row.  Its schema, id INTEGER PRIMARY KEY
\* CHECK (id = 1), admits the row of id 1 and no other.
NoRow == [ id |-> NULL ]

\* INSERT OR REPLACE for INSERT OR IGNORE: the stored row is overwritten.
InsertOrIgnore_Replace(existing, r) == r

\* INSERT OR IGNORE INTO circuit_state (id, ...) VALUES (1, ...): row r is
\* inserted unless the table holds the row already.
InsertOrIgnore(existing, r) == IF existing = NoRow THEN r ELSE existing

----------------------------------------------------------------------------
\* Circuit breaker.

\* A JavaScript number-or-null used as a condition.
Truthy(x) == x # NULL /\ x # 0

\* hydrateState without the cooldown test: the saved state is resumed as is.
hydrateState_AsSaved(saved, t) ==
  [ state |-> saved.state, failures |-> <<>>,
    opened_at |-> IF Truthy(saved.opened_at) THEN saved.opened_at ELSE NULL,
    half_open_successes |-> saved.recovery_successes ]

\* hydrateState that forgets the recovery successes of the saved record.
hydrateState_ForgetsSuccesses(saved, t) ==
  IF saved.state = "open" /\ Truthy(saved.opened_at)
     /\ t - saved.opened_at >= circuit_open_duration_ms
  THEN [ state |-> "half_open", failures |-> <<>>, opened_at |-> NULL,
         half_open_successes |-> 0 ]
  ELSE [ state |-> saved.state, failures |-> <<>>,
         opened_at |-> IF Truthy(saved.opened_at) THEN saved.opened_at ELSE NULL,
         half_open_successes |-> 0 ]

\* hydrateState that resumes an open record without its opened_at.
hydrateState_LosesOpenedAt(saved, t) ==
  IF saved.state = "open" /\ Truthy(saved.opened_at)
     /\ t - saved.opened_at >= circuit_open_duration_ms
  THEN [ state |-> "half_open", failures |-> <<>>, opened_at |-> NULL,
         half_open_successes |-> 0 ]
  ELSE [ state |-> saved.state, failures |-> <<>>, opened_at |-> NULL,
         half_open_successes |-> saved.recovery_successes ]

\* CircuitBreaker.hydrateState
hydrateState(saved, t) ==
  IF saved.state = "open" /\ Truthy(saved.opened_at)
     /\ t - saved.opened_at >= circuit_open_duration_ms
  THEN [ state |-> "half_open", failures |-> <<>>, opened_at |-> NULL,
         half_open_successes |-> 0 ]
  ELSE [ state |-> saved.state, failures |-> <<>>,
         opened_at |-> IF Truthy(saved.opened_at) THEN saved.opened_at ELSE NULL,
         half_open_successes |-> saved.recovery_successes ]

\* The argument persist() hands to saveCircuitState.
PersistArg(c) ==
  [ state              |-> c.state,
    failure_count      |-> Len(c.failures),
    last_failure_at    |-> IF Len(c.failures) > 0 THEN c.failures[Len(c.failures)]
                           ELSE NULL,
    opened_at          |-> c.opened_at,
    recovery_successes |-> c.half_open_successes ]

\* CircuitBreaker.persist on breaker state c; `fail` is the store throwing.
\* The row is written unless the store throws.
persist(c, fail) ==
  row' = IF fail THEN row ELSE saveCircuitState(row, PersistArg(c), now)

\* cleanOldFailures that prunes nothing.
cleanOldFailures_KeepsAll(fs, t) == fs

\* The failure timestamps cleanOldFailures keeps at time t.
cleanOldFailures(fs, t) ==
  SelectSeq(fs, LAMBDA x : x > t - circuit_failure_window_ms)

\* The cooldown test with > for >=.
CooldownPassed_Strict(c, t) ==
  c.opened_at # NULL /\ t - c.opened_at > circuit_open_duration_ms

\* The test canExecute makes on an open breaker: opened_at is set and
\* open_duration has elapsed since.
CooldownPassed(c, t) ==
  c.opened_at # NULL /\ t - c.opened_at >= circuit_open_duration_ms

\* What a call left behind for its caller: the operation, the category and
\* the numeric argument it was given (if any), its return value, whether it
\* threw, and whether it ran an external command.
Call(op, cat, arg, ret) ==
  [ op |-> op, cat |-> cat, arg |-> arg, ret |-> ret, raised |-> FALSE,
    ran |-> FALSE ]
Returned(op, ret) == Call(op, "", NULL, ret)
Threw(op) == [Call(op, "", NULL, NULL) EXCEPT !.raised = TRUE]

\* CircuitBreaker.canExecute, the part on the breaker and its row; ret is 1
\* for true and 0 for false.
cbCanExecute(fail) ==
  LET cleaned == [circuit EXCEPT !.failures = cleanOldFailures(@, now)] IN
  IF circuit.state = "open" /\ CooldownPassed(circuit, now)
  THEN LET c == [cleaned EXCEPT !.state = "half_open",
                                !.half_open_successes = 0] IN
       /\ circuit' = c
       /\ persist(c, fail)
       /\ lastOp' = IF fail THEN Threw("canExecute")
                    ELSE Returned("canExecute", 1)
  ELSE /\ circuit' = cleaned
       /\ row' = row
       /\ lastOp' = Returned("canExecute",
                             IF circuit.state = "open" THEN 0 ELSE 1)

\* CircuitBreaker.canExecute called on its own.
canExecute(fail) ==
  /\ cbCanExecute(fail)
  /\ UNCHANGED <<now, cfgVars, srvVars, command_history, hmVars>>

\* recordSuccess that closes one success late (> for >=).
AfterSuccess_Late(c) ==
  IF c.state # "half_open" THEN c
  ELSE IF c.half_open_successes + 1 > circuit_recovery_threshold
       THEN [ state |-> "closed", failures |-> <<>>, opened_at |-> NULL,
              half_open_successes |-> c.half_open_successes + 1 ]
       ELSE [c EXCEPT !.half_open_successes = @ + 1]

\* recordSuccess that also forgets the recorded failures of a closed breaker.
AfterSuccess_Resets(c) ==
  IF c.state = "closed" THEN [c EXCEPT !.failures = <<>>]
  ELSE IF c.state # "half_open" THEN c
  ELSE IF c.half_open_successes + 1 >= circuit_recovery_threshold
       THEN [ state |-> "closed", failures |-> <<>>, opened_at |-> NULL,
              half_open_successes |-> c.half_open_successes + 1 ]
       ELSE [c EXCEPT !.half_open_successes = @ + 1]

\* recordSuccess that closes the breaker with its failure list as it was.
AfterSuccess_KeepsFailures(c) ==
  IF c.state # "half_open" THEN c
  ELSE IF c.half_open_successes + 1 >= circuit_recovery_threshold
       THEN [c EXCEPT !.state = "closed", !.opened_at = NULL,
                      !.half_open_successes = @ + 1]
       ELSE [c EXCEPT !.half_open_successes = @ + 1]

\* The breaker after CircuitBreaker.recordSuccess.
AfterSuccess(c) ==
  IF c.state # "half_open" THEN c
  ELSE IF c.half_open_successes + 1 >= circuit_recovery_threshold
       THEN [ state |-> "closed", failures |-> <<>>, opened_at |-> NULL,
              half_open_successes |-> c.half_open_successes + 1 ]
       ELSE [c EXCEPT !.half_open_successes = @ + 1]

\* CircuitBreaker.recordSuccess, the part on the breaker and its row.
cbRecordSuccess(fail) ==
  /\ circuit' = AfterSuccess(circuit)
  /\ IF circuit.state = "half_open"
     THEN persist(AfterSuccess(circuit), fail)
     ELSE row' = row

\* Whether recordSuccess reaches persist() on breaker state c.
SuccessPersists(c) == c.state = "half_open"

\* recordFailure that reopens a half-open breaker without stamping opened_at.
AfterFailure_KeepsOpenedAt(c, exclude, t) ==
  IF exclude THEN c
  ELSE LET fs == cleanOldFailures(Append(c.failures, t), t) IN
       IF c.state = "half_open"
       THEN [c EXCEPT !.failures = fs, !.state = "open"]
       ELSE IF c.state = "closed" /\ Len(fs) >= circuit_failure_threshold
            THEN [c EXCEPT !.failures = fs, !.state = "open", !.opened_at = t]
            ELSE [c EXCEPT !.failures = fs]

\* The breaker after CircuitBreaker.recordFailure(excludeFromCircuit) at time t.
AfterFailure(c, exclude, t) ==
  IF exclude THEN c
  ELSE LET fs == cleanOldFailures(Append(c.failures, t), t) IN
       IF c.state = "half_open"
       THEN [c EXCEPT !.failures = fs, !.state = "open", !.opened_at = t]
       ELSE IF c.state = "closed" /\ Len(fs) >= circuit_failure_threshold
            THEN [c EXCEPT !.failures = fs, !.state = "open", !.opened_at = t]
            ELSE [c EXCEPT !.failures = fs]

\* Whether recordFailure reaches persist() on breaker state c.
FailurePersists(c, exclude, t) ==
  /\ ~exclude
  /\ AfterFailure(c, exclude, t).state # c.state

\* CircuitBreaker.recordFailure, the part on the breaker and its row.
cbRecordFailure(exclude, fail) ==
  /\ exclude \/ Len(circuit.failures) < MaxFailures
  /\ circuit' = AfterFailure(circuit, exclude, now)
  /\ IF FailurePersists(circuit, exclude, now)
     THEN persist(AfterFailure(circuit, exclude, now), fail)
     ELSE row' = row

\* CircuitBreaker.recordSuccess called on the breaker itself.
recordSuccess(fail) ==
  /\ cbRecordSuccess(fail)
  /\ lastOp' = IF fail /\ SuccessPersists(circuit) THEN Threw("recordSuccess")
               ELSE Returned("recordSuccess", NULL)
  /\ UNCHANGED <<now, cfgVars, srvVars, command_history, hmVars>>

\* CircuitBreaker.recordFailure called on the breaker itself.
recordFailure(exclude, fail) ==
  /\ cbRecordFailure(exclude, fail)
  /\ lastOp' = IF fail /\ FailurePersists(circuit, exclude, now)
               THEN Threw("recordFailure")
               ELSE Returned("recordFailure", NULL)
  /\ UNCHANGED <<now, cfgVars, srvVars, command_history, hmVars>>

----------------------------------------------------------------------------
\* Health monitor.

\* A monitor constructed pessimistic.
FreshHealth_Degraded ==
  [ status |-> "degraded", latency_ms |-> 0, latency_samples |-> <<>>,
    consecutive_failures |-> 0, consecutive_successes |-> 0,
    last_check |-> NULL, last_success |-> NULL, last_failure |-> NULL ]

\* HealthMonitor constructor
FreshHealth ==
  [ status |-> "healthy", latency_ms |-> 0, latency_samples |-> <<>>,
    consecutive_failures |-> 0, consecutive_successes |-> 0,
    last_check |-> NULL, last_success |-> NULL, last_failure |-> NULL ]

NoProbe == [ inflight |-> FALSE, start |-> NULL ]

\* No probe is started once health_checks holds this many rows, or a run of
\* consecutive probe results is this long.
MaxHealthChecks == 4

\* The row recordHealthCheck inserts at time t.
HealthRow(status, latency, ok, t) ==
  [ status |-> status, latency_ms |-> latency, ping_success |-> ok,
    checked_at |-> t ]

\* A full ring dropping its newest sample (pop() for shift()).
PushSample_DropsNewest(samples, latency) ==
  LET pushed == Append(samples, latency) IN
  IF Len(pushed) > 10 THEN samples ELSE pushed

\* latency_samples.push(latency_ms), then shift() beyond 10 samples.
PushSample(samples, latency) ==
  LET pushed == Append(samples, latency) IN
  IF Len(pushed) > 10 THEN Tail(pushed) ELSE pushed

\* HealthMonitor.recordSuccess up to its recordHealthCheck call.
SuccessNoted(h, latency, t) ==
  [h EXCEPT !.last_check = t, !.last_success = t, !.latency_ms = latency,
            !.consecutive_failures = 0,
            !.consecutive_successes = @ + 1,
            !.latency_samples = PushSample(@, latency)]

\* Recovery from degraded one success late.
SuccessTransition_Four(h) ==
  IF h.status = "unhealthy" /\ h.consecutive_successes >= 1
  THEN [h EXCEPT !.status = "degraded"]
  ELSE IF h.status = "degraded" /\ h.consecutive_successes >= 4
       THEN [h EXCEPT !.status = "healthy"]
       ELSE h

\* An unhealthy monitor made healthy by its first success.
SuccessTransition_Jumps(h) ==
  IF h.status = "unhealthy" /\ h.consecutive_successes >= 1
  THEN [h EXCEPT !.status = "healthy"]
  ELSE IF h.status = "degraded" /\ h.consecutive_successes >= 3
       THEN [h EXCEPT !.status = "healthy"]
       ELSE h

\* HealthMonitor.recordSuccess after its recordHealthCheck call: the status
\* transitions.
SuccessTransition(h) ==
  IF h.status = "unhealthy" /\ h.consecutive_successes >= 1
  THEN [h EXCEPT !.status = "degraded"]
  ELSE IF h.status = "degraded" /\ h.consecutive_successes >= 3
       THEN [h EXCEPT !.status = "healthy"]
       ELSE h

\* HealthMonitor.recordFailure up to its recordHealthCheck call.
FailureNoted(h, t) ==
  [h EXCEPT !.last_check = t, !.last_failure = t,
            !.consecutive_successes = 0,
            !.consecutive_failures = @ + 1]

\* A healthy monitor tolerating its first failure.
FailureTransition_Slow(h) ==
  IF h.status = "healthy" /\ h.consecutive_failures >= 2
  THEN [h EXCEPT !.status = "degraded"]
  ELSE IF h.status = "degraded" /\ h.consecutive_failures >= 3
       THEN [h EXCEPT !.status = "unhealthy"]
       ELSE h

\* HealthMonitor.recordFailure after its recordHealthCheck call: the status
\* transitions.
FailureTransition(h) ==
  IF h.status = "healthy" /\ h.consecutive_failures >= 1
  THEN [h EXCEPT !.status = "degraded"]
  ELSE IF h.status = "degraded" /\ h.consecutive_failures >= 3
       THEN [h EXCEPT !.status = "unhealthy"]
       ELSE h

\* DEFAULT_NEVERHANG_CONFIG: the probe intervals, and the delay of the first
\* probe after startBackgroundCheck.
health_check_interval_ms == 30000
health_degraded_interval_ms == 5000
InitialDelay == 5000

\* No timer is created once this many have been.
MaxTimers == 6

\* HealthMonitor.intervalId = null, no timer pending, no check callback running.
\* created counts the setTimeout calls and names the timers; stopped records
\* that stopBackgroundCheck was the last of start and stop to be called.
FreshLoop ==
  [ intervalId |-> NULL, pending |-> {}, created |-> 0, checking |-> FALSE,
    stopped |-> FALSE ]

\* this.intervalId = setTimeout(check, delay) at time t
SetTimeout(l, delay, t) ==
  [l EXCEPT !.created = @ + 1,
            !.pending = @ \cup {[ id |-> l.created + 1, due |-> t + delay ]},
            !.intervalId = l.created + 1]

\* clearTimeout(id): a timer that has fired or was cleared is not pending, and
\* clearing it does nothing.
ClearTimeout(l, id) ==
  [l EXCEPT !.pending = { t \in @ : t.id # id }]

\* The two intervals taken for each other.
NextInterval_Swapped(status) ==
  IF status = "healthy" THEN health_degraded_interval_ms
  ELSE health_check_interval_ms

\* The interval check() picks after its ping.
NextInterval(status) ==
  IF status = "healthy" THEN health_check_interval_ms
  ELSE health_degraded_interval_ms

\* check() after `await this.ping()`: the next timer is set, unless ping threw.
Rescheduled(l, status, threw, t) ==
  IF ~l.checking THEN l
  ELSE IF threw THEN [l EXCEPT !.checking = FALSE]
       ELSE SetTimeout([l EXCEPT !.checking = FALSE], NextInterval(status), t)

\* HealthMonitor.ping, first half: the probe callback is started, while
\* fewer than `limit` probes are on record.
ProbeStartUpTo(limit) ==
  /\ ~probe.inflight
  /\ Len(health_checks) < limit
  /\ health.consecutive_successes < limit
  /\ health.consecutive_failures < limit
  /\ probe' = [ inflight |-> TRUE, start |-> now ]
  /\ UNCHANGED <<now, cfgVars, srvVars, cbVars, command_history, health, health_checks,
                 loop, lastOp>>

ProbeStart == ProbeStartUpTo(MaxHealthChecks)

\* HealthMonitor.ping, second half: the probe callback resolves (ok) or
\* rejects.  recordSuccess runs inside ping's try block, so a store that throws
\* in it lands in the catch block, whose recordFailure throws in turn; the
\* status transitions after the throwing store call are not reached.
ProbeDone(ok, fail) ==
  LET latency == now - probe.start
      noted == IF ok THEN SuccessNoted(health, latency, now)
               ELSE FailureNoted(health, now) IN
  /\ probe.inflight
  /\ probe' = NoProbe
  /\ IF fail
     THEN /\ health' = IF ok THEN FailureNoted(noted, now) ELSE noted
          /\ health_checks' = health_checks
          /\ lastOp' = [Call("ping", "", latency, NULL) EXCEPT !.raised = TRUE]
     ELSE /\ health' = IF ok THEN SuccessTransition(noted)
                       ELSE FailureTransition(noted)
          /\ health_checks' =
               Append(health_checks,
                      HealthRow(noted.status, IF ok THEN latency ELSE NULL,
                                IF ok THEN 1 ELSE 0, now))
          /\ lastOp' = Call("ping", "", latency, IF ok THEN 1 ELSE 0)
  /\ loop' = Rescheduled(loop, health'.status, fail, now)
  /\ UNCHANGED <<now, cfgVars, srvVars, cbVars, command_history>>

\* HealthMonitor.startBackgroundCheck (NeverhangManager.start)
startBackgroundCheck ==
  /\ loop.created < MaxTimers
  /\ loop' = IF loop.intervalId # NULL THEN loop
             ELSE [SetTimeout(loop, InitialDelay, now) EXCEPT !.stopped = FALSE]
  /\ lastOp' = Returned("start", NULL)
  /\ UNCHANGED <<now, cfgVars, srvVars, cbVars, command_history, health, health_checks,
                 probe>>

\* HealthMonitor.stopBackgroundCheck (NeverhangManager.stop)
stopBackgroundCheck ==
  /\ loop' = IF loop.intervalId # NULL
             THEN [ClearTimeout(loop, loop.intervalId) EXCEPT
                     !.intervalId = NULL, !.stopped = TRUE]
             ELSE [loop EXCEPT !.stopped = TRUE]
  /\ lastOp' = Returned("stop", NULL)
  /\ UNCHANGED <<now, cfgVars, srvVars, cbVars, command_history, health, health_checks,
                 probe>>

\* The earliest pending timer fires, at its due time or later: check() runs
\* and calls ping(), whose probe callback is started.  Timers fire while fewer
\* than `limit` probes are on record.
CheckFires(limit) ==
  /\ ~probe.inflight
  /\ Len(health_checks) < limit
  /\ loop.created < MaxTimers
  /\ \E t \in loop.pending :
       /\ \A u \in loop.pending : t.due <= u.due
       /\ now' = IF now > t.due THEN now ELSE t.due
       /\ loop' = [loop EXCEPT !.pending = @ \ {t}, !.checking = TRUE]
       /\ probe' = [ inflight |-> TRUE, start |-> now' ]
  /\ UNCHANGED <<cfgVars, srvVars, cbVars, command_history, health, health_checks, lastOp>>

----------------------------------------------------------------------------
\* NeverhangManager: the calls the command-dispatch layer makes.  The
\* counters totalCommands and successfulCommands are left out: they are read
\* by getUptimePercent alone.

\* No outcome is appended to a command_history that holds this many rows.
MaxHistory == 4

\* classifyCommand
classifyCommand(tool) ==
  CASE tool \in {"systemd_list_units", "systemd_unit_status",
                 "systemd_failed_units", "systemd_timers"} -> "status"
    [] tool \in {"systemd_start", "systemd_stop", "systemd_restart",
                 "systemd_reload", "systemd_enable", "systemd_disable"} -> "action"
    [] tool = "systemd_daemon_reload" -> "heavy"
    [] tool \in {"systemd_diagnose", "systemd_analyze_boot"} -> "diagnostic"
    [] OTHER -> "query"

\* The row recordCommand inserts at time t.
CommandRow(tool, cat, dur, success, err, t) ==
  [ tool_name |-> tool, category |-> cat, duration_ms |-> dur,
    success |-> success, error_type |-> err, executed_at |-> t ]

\* recordCommand inserting the row twice.
recordCommand_Twice(r, fail) ==
  command_history' = IF fail THEN command_history
                     ELSE Append(Append(command_history, r), r)

\* recordCommand: one INSERT, unless the store throws.
recordCommand(r, fail) ==
  command_history' = IF fail THEN command_history ELSE Append(command_history, r)

\* NeverhangManager.recordSuccess.  A store that throws does so at the first
\* store call the handler reaches; what precedes it has taken effect.
nmRecordSuccess(tool, cat, dur, fail) ==
  /\ cbRecordSuccess(fail)
  /\ recordCommand(CommandRow(tool, cat, dur, 1, "", now), fail)
  /\ lastOp' = IF fail THEN [Call("recordSuccess", cat, dur, NULL) EXCEPT !.raised = TRUE]
               ELSE Call("recordSuccess", cat, dur, NULL)
  /\ UNCHANGED <<now, cfgVars, srvVars, hmVars>>

\* The exemption forgotten: every failure counts.
ExcludeFromCircuit_Never(cat) == FALSE

\* category === "diagnostic"
ExcludeFromCircuit(cat) == cat = "diagnostic"

\* recordFailure that also counts the failure against the health state.
nmRecordFailure_FeedsHealth(tool, cat, dur, err, fail) ==
  /\ cbRecordFailure(ExcludeFromCircuit(cat), fail)
  /\ recordCommand(CommandRow(tool, cat, dur, 0, err, now), fail)
  /\ lastOp' = IF fail THEN [Call("recordFailure", cat, dur, NULL) EXCEPT !.raised = TRUE]
               ELSE Call("recordFailure", cat, dur, NULL)
  /\ health' = FailureTransition(FailureNoted(health, now))
  /\ UNCHANGED <<now, cfgVars, srvVars, probe, health_checks, loop>>

\* NeverhangManager.recordFailure
nmRecordFailure(tool, cat, dur, err, fail) ==
  /\ cbRecordFailure(ExcludeFromCircuit(cat), fail)
  /\ recordCommand(CommandRow(tool, cat, dur, 0, err, now), fail)
  /\ lastOp' = IF fail THEN [Call("recordFailure", cat, dur, NULL) EXCEPT !.raised = TRUE]
               ELSE Call("recordFailure", cat, dur, NULL)
  /\ UNCHANGED <<now, cfgVars, srvVars, hmVars>>

----------------------------------------------------------------------------
\* Adaptive timeout.

\* DEFAULT_NEVERHANG_CONFIG: the category baselines.
status_timeout_ms == 5000
query_timeout_ms == 10000
action_timeout_ms == 30000
heavy_timeout_ms == 60000
diagnostic_timeout_ms == 90000

Categories == {"status", "query", "action", "heavy", "diagnostic"}

\* AdaptiveTimeout.getBaseTimeout
getBaseTimeout(cat) ==
  CASE cat = "status" -> status_timeout_ms
    [] cat = "query" -> query_timeout_ms
    [] cat = "action" -> action_timeout_ms
    [] cat = "heavy" -> heavy_timeout_ms
    [] cat = "diagnostic" -> diagnostic_timeout_ms

\* Math.round(n / d) for n >= 0, d > 0: halves round up.
JsRound(n, d) == (2 * n + d) \div (2 * d)

\* The SELECT without its LIMIT: every successful outcome of the category.
RecentSuccessDurations_NoLimit(h, cat) ==
  LET sel == SelectSeq(h, LAMBDA r : r.category = cat /\ r.success = 1) IN
  [ i \in 1..Len(sel) |-> sel[i].duration_ms ]

\* SELECT duration_ms FROM command_history WHERE category = ? AND success = 1
\* ORDER BY executed_at DESC LIMIT 100.  Rows are inserted with executed_at =
\* Date.now(), so insertion order is an ascending order of executed_at, and the
\* last 100 inserted are 100 most recent ones.
RecentSuccessDurations(h, cat) ==
  LET sel == SelectSeq(h, LAMBDA r : r.category = cat /\ r.success = 1)
      n == Len(sel)
      recent == IF n > 100 THEN SubSeq(sel, n - 99, n) ELSE sel IN
  [ i \in 1..Len(recent) |-> recent[i].duration_ms ]

\* sorted[i] of ds sorted ascending (i counts from 0).
SortedAt(ds, i) ==
  CHOOSE v \in { ds[j] : j \in 1..Len(ds) } :
    /\ Cardinality({ j \in 1..Len(ds) : ds[j] < v }) <= i
    /\ Cardinality({ j \in 1..Len(ds) : ds[j] <= v }) > i

\* getP95Latency; NULL is "not enough data".
getP95Latency(h, cat) ==
  LET ds == RecentSuccessDurations(h, cat) IN
  IF Len(ds) < 10 THEN NULL
  ELSE SortedAt(ds, (Len(ds) * 95) \div 100)

\* The adaptive block without its floor: the learned value always replaces
\* the baseline.
LearnedBase_NoFloor(cat, h, adaptive) ==
  LET p95 == getP95Latency(h, cat) IN
  IF adaptive /\ p95 # NULL THEN JsRound(3 * p95, 2) ELSE getBaseTimeout(cat)

\* The adaptive block with its switch ignored: the store is consulted also
\* when adaptive_timeout is off.
LearnedBase_IgnoresSwitch(cat, h, adaptive) ==
  LET base == getBaseTimeout(cat)
      p95 == getP95Latency(h, cat)
      learned == JsRound(3 * p95, 2) IN
  IF p95 # NULL /\ learned > base THEN learned ELSE base

\* AdaptiveTimeout.getTimeout: baseTimeout after the adaptive block.
LearnedBase(cat, h, adaptive) ==
  LET base == getBaseTimeout(cat)
      p95 == getP95Latency(h, cat)
      learned == JsRound(3 * p95, 2) IN
  IF adaptive /\ p95 # NULL /\ learned > base THEN learned ELSE base

\* The multiplier with Math.floor in place of Math.round.
HealthMultiplied_Floor(b, status) ==
  CASE status = "healthy" -> b
    [] status = "degraded" -> b \div 2
    [] status = "unhealthy" -> b \div 4

\* AdaptiveTimeout.getTimeout: Math.round(baseTimeout * multiplier).
HealthMultiplied(b, status) ==
  CASE status = "healthy" -> b
    [] status = "degraded" -> JsRound(b, 2)
    [] status = "unhealthy" -> JsRound(b, 4)

\* The override put through the health multiplier like a base timeout.
getTimeout_OverrideScaled(cat, status, override, h, adaptive) ==
  IF override # NULL THEN HealthMultiplied(override, status)
  ELSE HealthMultiplied(LearnedBase(cat, h, adaptive), status)

\* AdaptiveTimeout.getTimeout: timeout_ms.  An override of NULL is undefined.
getTimeout(cat, status, override, h, adaptive) ==
  IF override # NULL THEN override
  ELSE HealthMultiplied(LearnedBase(cat, h, adaptive), status)

\* NeverhangManager.getTimeout
nmGetTimeout(cat, override) ==
  /\ lastOp' = Call("getTimeout", cat, override,
                    getTimeout(cat, health.status, override, command_history,
                               adaptive_timeout))
  /\ UNCHANGED <<now, cfgVars, srvVars, cbVars, command_history, hmVars>>

----------------------------------------------------------------------------
\* The MCP server's tools (command dispatch).

\* DEFAULT_BLACKLIST
DEFAULT_BLACKLIST ==
  << "sshd.service", "firewalld.service", "iptables.service",
     "nftables.service", "systemd-*.service", "dbus.service",
     "polkit.service" >>

\* DEFAULT_CONFIG.permissions
DefaultPermissions ==
  [ read |-> TRUE, restart |-> FALSE, start_stop |-> FALSE,
    enable_disable |-> FALSE, daemon_reload |-> FALSE,
    whitelist |-> <<>>, blacklist |-> DEFAULT_BLACKLIST ]

\* The permissions of bypass mode.
BypassPermissions ==
  [ read |-> TRUE, restart |-> TRUE, start_stop |-> TRUE,
    enable_disable |-> TRUE, daemon_reload |-> TRUE,
    whitelist |-> <<>>, blacklist |-> <<>> ]

\* mergeConfig, the permissions: the fields of the file replace the defaults
\* (a file without a blacklist keeps the default one).
mergeConfig(defaults, overrides) ==
  [ k \in DOMAIN defaults |->
      IF k \in DOMAIN overrides THEN overrides[k] ELSE defaults[k] ]

\* loadConfig, the permissions.  bypass: SYSTEMD_MCP_BYPASS=1 or
\* --bypass-permissions; hasFile, overrides: a config file was found and the
\* permissions it holds; env: the levels whose SYSTEMD_MCP_ALLOW_* is "1"
\* (read only when there is no file).
loadConfig(bypass, hasFile, overrides, env) ==
  IF bypass THEN BypassPermissions
  ELSE IF hasFile THEN mergeConfig(DefaultPermissions, overrides)
  ELSE [ k \in DOMAIN DefaultPermissions |->
           IF k \in env THEN TRUE ELSE DefaultPermissions[k] ]

\* checkPermission
checkPermission(perms, level) == perms[level] = TRUE

\* String.prototype.includes, for a needle of one character.
includes(str, ch) == \E i \in 1..Len(str) : SubSeq(str, i, i) = ch

\* unit.includes(".") ? unit : `${unit}.service`
UnitName(unit) == IF includes(unit, ".") THEN unit ELSE unit \o ".service"

\* globMatch, the conversion of the glob to a regular expression, as the
\* sequence of its atoms: the characters . + ^ $ { } ( ) | [ ] \ are escaped
\* and match themselves, * becomes .* and every other character stands for
\* itself.  (A "?" is not escaped and stays a quantifier of the regular
\* expression; the patterns of the model hold none.)
GlobToRegex(pattern) ==
  [ i \in 1..Len(pattern) |->
      LET c == SubSeq(pattern, i, i) IN
      IF c = "*" THEN [kind |-> "star", ch |-> ""]
      ELSE [kind |-> "lit", ch |-> c] ]

\* RegExp.prototype.test for an expression anchored by ^ and $, over
\* strings without line terminators.
RECURSIVE RegexTest(_, _)
RegexTest(re, str) ==
  IF re = <<>> THEN str = ""
  ELSE IF Head(re).kind = "star"
       THEN \/ RegexTest(Tail(re), str)
            \/ (str # "" /\ RegexTest(re, Tail(str)))
       ELSE /\ str # ""
            /\ Head(re).ch = Head(str)
            /\ RegexTest(Tail(re), Tail(str))

\* globMatch
globMatch(str, pattern) == RegexTest(GlobToRegex(pattern), str)

\* matchesPattern
matchesPattern(unit, patterns) ==
  \E i \in 1..Len(patterns) : globMatch(unit, patterns[i])

\* The access check letting a whitelisted unit through whatever the
\* blacklist says.
checkUnitAccess_WhitelistFirst(perms, unit) ==
  IF Len(perms.whitelist) > 0 /\ matchesPattern(unit, perms.whitelist)
  THEN TRUE
  ELSE IF matchesPattern(unit, perms.blacklist) THEN FALSE
  ELSE Len(perms.whitelist) = 0

\* checkUnitAccess
checkUnitAccess(perms, unit) ==
  IF matchesPattern(unit, perms.blacklist) THEN FALSE
  ELSE IF Len(perms.whitelist) = 0 THEN TRUE
  ELSE matchesPattern(unit, perms.whitelist)

\* The tools without a unit argument.
Tools == {"systemd_list_units", "systemd_timers", "systemd_daemon_reload"}

\* The tools changing a unit given to them.
UnitActionTools ==
  {"systemd_start", "systemd_stop", "systemd_restart", "systemd_reload",
   "systemd_enable", "systemd_disable"}

\* The action tools.
ActionTools == UnitActionTools \cup {"systemd_daemon_reload"}

\* The reading tools with a unit argument.
UnitReadTools ==
  {"systemd_cat_unit", "systemd_unit_resources", "systemd_journal_tail",
   "systemd_dependencies", "systemd_journal_query", "systemd_diagnose"}

UnitTools == UnitReadTools \cup UnitActionTools

\* Every action tool reading the level "read".
ToolLevel_AllRead(tool) == "read"

\* The permission level a tool's handler checks first.
ToolLevel(tool) ==
  IF tool \in {"systemd_start", "systemd_stop"} THEN "start_stop"
  ELSE IF tool \in {"systemd_restart", "systemd_reload"} THEN "restart"
  ELSE IF tool \in {"systemd_enable", "systemd_disable"} THEN "enable_disable"
  ELSE IF tool = "systemd_daemon_reload" THEN "daemon_reload"
  ELSE "read"

\* The handlers calling checkUnitAccess on their unit before any command.
ChecksUnitAccess(tool) ==
  tool \in UnitActionTools
           \cup {"systemd_cat_unit", "systemd_unit_resources",
                 "systemd_journal_tail"}

\* The commands a handler hands to runCommand, in order, each followed by
\* the unit when the tool has one (systemd_dependencies with direction
\* "both", systemd_journal_query with a unit, systemd_enable/disable
\* without now).
Commands(tool) ==
  CASE tool = "systemd_list_units" -> <<"systemctl list-units">>
    [] tool = "systemd_timers" -> <<"systemctl list-timers">>
    [] tool = "systemd_daemon_reload" -> <<"systemctl daemon-reload">>
    [] tool = "systemd_cat_unit" -> <<"systemctl cat">>
    [] tool = "systemd_unit_resources" -> <<"systemctl show">>
    [] tool = "systemd_journal_tail" -> <<"journalctl -u">>
    [] tool = "systemd_journal_query" -> <<"journalctl -u">>
    [] tool = "systemd_dependencies" ->
         <<"systemctl list-dependencies", "systemctl list-dependencies --reverse">>
    [] tool = "systemd_diagnose" -> <<"systemctl show", "journalctl -u">>
    [] tool = "systemd_start" -> <<"systemctl start">>
    [] tool = "systemd_stop" -> <<"systemctl stop">>
    [] tool = "systemd_restart" -> <<"systemctl restart">>
    [] tool = "systemd_reload" -> <<"systemctl reload">>
    [] tool = "systemd_enable" -> <<"systemctl enable">>
    [] tool = "systemd_disable" -> <<"systemctl disable">>

\* A tool handler run in one step: permission check, then runCommand.  ret
\* is 1 when the handler went on to the command and 0 when it returned
\* "Permission denied"; ran tells whether runCommand executed the external
\* command.
ToolCall(tool) ==
  /\ lastOp' = IF checkPermission(permissions, ToolLevel(tool))
               THEN [Call(tool, classifyCommand(tool), NULL, 1) EXCEPT !.ran = TRUE]
               ELSE Call(tool, classifyCommand(tool), NULL, 0)
  /\ UNCHANGED <<now, cfgVars, srvVars, cbVars, command_history, hmVars>>

\* The value of a property the object does not have.
Undefined == -3

\* The timeout runCommand gives withTimeout: the default parameter
\* config.neverhang.query_timeout, or config.neverhang.action_timeout, which
\* replaces the default only when it is defined.  Config.neverhang defines
\* neither name (its fields end in _timeout_ms).
RunTimeout(tool) == Undefined

\* No tool invocation in flight.
NoCall ==
  [ tool |-> "", unit |-> "", pc |-> "idle", step |-> 0, use_ai |-> FALSE,
    timeoutMs |-> NULL ]

\* No response yet.
NoResponse == [tool |-> "", unit |-> "", text |-> ""]

\* runCommand: the command is started by exec and raced against the timer of
\* withTimeout.
RunCommand(tool, unitName, step, use_ai) ==
  /\ call' = [ tool |-> tool, unit |-> unitName, pc |-> "command",
               step |-> step, use_ai |-> use_ai,
               timeoutMs |-> RunTimeout(tool) ]
  /\ issued' = Append(IF step = 1 THEN <<>> ELSE issued,
                      [ tool |-> tool, cmd |-> Commands(tool)[step],
                        unit |-> unitName ])
  /\ response' = NoResponse

\* The handler returns its response to the caller.
Respond(tool, unitName, text) ==
  /\ call' = NoCall
  /\ response' = [tool |-> tool, unit |-> unitName, text |-> text]

\* A caller invokes a tool: the handler runs up to its first await.
Invoke(tool, unit, use_ai) ==
  /\ call.pc = "idle"
  /\ LET unitName == IF tool \in UnitTools THEN UnitName(unit) ELSE "" IN
       IF ~checkPermission(permissions, ToolLevel(tool))
       THEN Respond(tool, unitName, "Permission denied") /\ issued' = <<>>
       ELSE IF ChecksUnitAccess(tool) /\ ~checkUnitAccess(permissions, unitName)
       THEN Respond(tool, unitName, "blacklisted") /\ issued' = <<>>
       ELSE RunCommand(tool, unitName, 1, use_ai)
  /\ UNCHANGED <<now, cfgVars, trials, cbVars, command_history, hmVars, lastOp>>

\* The external command ends before the timer, with exit status 0 (ok) or
\* not: the handler goes on to its next command, to the AI synthesis
\* (systemd_diagnose with use_ai and isHaikuEnabled), or returns.
CommandCompletes(ok) ==
  /\ call.pc = "command"
  /\ IF ~ok
     THEN Respond(call.tool, call.unit, "Error") /\ UNCHANGED issued
     ELSE IF call.step < Len(Commands(call.tool))
     THEN RunCommand(call.tool, call.unit, call.step + 1, call.use_ai)
     ELSE IF call.tool = "systemd_diagnose" /\ call.use_ai /\ fallback
     THEN /\ call' = [call EXCEPT !.pc = "ai", !.timeoutMs = NULL]
          /\ UNCHANGED <<issued, response>>
     ELSE Respond(call.tool, call.unit, "result") /\ UNCHANGED issued
  /\ UNCHANGED <<now, cfgVars, trials, cbVars, command_history, hmVars, lastOp>>

\* The timer of withTimeout fires before the command ends: runCommand
\* rejects and the handler's catch turns that into a response.  The command
\* itself is left running.
TimeoutFires ==
  /\ call.pc = "command"
  /\ Respond(call.tool, call.unit, "Timeout")
  /\ UNCHANGED <<now, cfgVars, issued, trials, cbVars, command_history, hmVars, lastOp>>

\* client.messages.create of diagnoseWithHaiku settles: with a diagnosis
\* (ok), or with an error, which diagnoseWithHaiku turns into null.
AiCompletes(ok) ==
  /\ call.pc = "ai"
  /\ Respond(call.tool, call.unit, "result")
  /\ UNCHANGED <<now, cfgVars, issued, trials, cbVars, command_history, hmVars, lastOp>>

----------------------------------------------------------------------------
\* The clock, and the process.

\* A millisecond passes, up to `limit`.
TickUpTo(limit) ==
  /\ now < limit
  /\ now' = now + 1
  /\ UNCHANGED <<cfgVars, srvVars, cbVars, command_history, hmVars, lastOp>>

Tick == TickUpTo(MaxTime)

WEEK_MS == 7 * 24 * 60 * 60 * 1000
DAY_MS == 24 * 60 * 60 * 1000

\* The sweep deleting the rows at the cutoff as well.
cleanupOldData_Inclusive(rows, col, cutoff) ==
  SelectSeq(rows, LAMBDA r : ~(r[col] <= cutoff))

\* cleanupOldData: DELETE FROM <table> WHERE <col> < cutoff
cleanupOldData(rows, col, cutoff) == SelectSeq(rows, LAMBDA r : ~(r[col] < cutoff))

\* The process exits (dropping any tool invocation in flight) and is started
\* again on the same store: initDatabase
\* (the singleton row exists, so INSERT OR IGNORE leaves it), cleanupOldData,
\* then the NeverhangManager constructor.  The call records cmdDeleted.changes
\* and healthDeleted.changes, which cleanupOldData logs.
Restart ==
  /\ command_history' = cleanupOldData(command_history, "executed_at", now - WEEK_MS)
  /\ health_checks' = cleanupOldData(health_checks, "checked_at", now - DAY_MS)
  /\ row' = InsertOrIgnore(row, FirstRow(now))
  /\ circuit' = hydrateState(row', now)
  /\ health' = FreshHealth
  /\ probe' = NoProbe
  /\ loop' = FreshLoop
  /\ lastOp' = Call("restart", "", Len(command_history) - Len(command_history'),
                    Len(health_checks) - Len(health_checks'))
  /\ call' = NoCall
  /\ issued' = <<>>
  /\ response' = NoResponse
  /\ trials' = 0
  /\ UNCHANGED <<now, cfgVars>>

\* The process is started again and a DELETE of cleanupOldData throws, the
\* first (step 1) or the second (step 2): initDatabase throws to its caller
\* after the statements before it have taken effect, and no supervisor is
\* constructed (the breaker variable keeps its value; nothing reads it until
\* the next start).
StartSweepFails(step) ==
  /\ row' = InsertOrIgnore(row, FirstRow(now))
  /\ command_history' =
       IF step = 1 THEN command_history
       ELSE cleanupOldData(command_history, "executed_at", now - WEEK_MS)
  /\ health_checks' = health_checks
  /\ health' = FreshHealth
  /\ probe' = NoProbe
  /\ loop' = FreshLoop
  /\ lastOp' = Threw("restart")
  /\ call' = NoCall
  /\ issued' = <<>>
  /\ response' = NoResponse
  /\ trials' = 0
  /\ UNCHANGED <<now, cfgVars, circuit>>

\* A supervisor exists: the last start did not throw.
Started == ~(lastOp.op = "restart" /\ lastOp.raised)

----------------------------------------------------------------------------
\* First start on an empty store: initDatabase creates the row, the
\* constructors load it.
Init ==
  /\ now = 1
  /\ adaptive_timeout = TRUE
  /\ permissions = DefaultPermissions
  /\ fallback = FALSE
  /\ call = NoCall
  /\ issued = <<>>
  /\ response = NoResponse
  /\ trials = 0
  /\ row = InsertOrIgnore(NoRow, FirstRow(1))
  /\ circuit = hydrateState(row, 1)
  /\ command_history = <<>>
  /\ health_checks = <<>>
  /\ health = FreshHealth
  /\ probe = NoProbe
  /\ loop = FreshLoop
  /\ lastOp = Returned("init", NULL)

Next ==
  \/ Tick
  \/ canExecute(FALSE)
  \/ recordSuccess(FALSE)
  \/ \E exclude \in BOOLEAN : recordFailure(exclude, FALSE)
  \/ Restart
  \/ \E tool \in Tools : ToolCall(tool)

Spec == Init /\ [][Next]_vars

\* The dispatch layer reporting outcomes through the NeverhangManager.
ReportedTools == {"systemd_journal_query", "systemd_diagnose"}
ReportedDurations == {2}
ReportedErrors == {"timeout"}

\* Outcomes are reported while command_history holds fewer than `limit` rows.
ReportSuccess(limit, fail) ==
  /\ Len(command_history) < limit
  /\ \E tool \in ReportedTools, dur \in ReportedDurations :
       nmRecordSuccess(tool, classifyCommand(tool), dur, fail)

ReportFailure(limit, fail) ==
  /\ Len(command_history) < limit
  /\ \E tool \in ReportedTools, dur \in ReportedDurations, err \in ReportedErrors :
       nmRecordFailure(tool, classifyCommand(tool), dur, err, fail)

NextManager ==
  \/ TickUpTo(MaxTimeLogged)
  \/ canExecute(FALSE)
  \/ ReportSuccess(MaxHistory, FALSE)
  \/ ReportFailure(MaxHistory, FALSE)

SpecManager == Init /\ [][NextManager]_vars

\* The same, with restarts of the process.
NextRestarts ==
  \/ NextManager
  \/ Restart

SpecRestarts == Init /\ [][NextRestarts]_vars

\* Timeouts asked of a supervisor whose store already holds outcomes: n
\* successes of one category, the last k of them slow, and f failures.
SampleDurations == {<<1000, 4000>>, <<4000, 20000>>, <<6667, 20000>>}
\* <<n, k>>: below and at the 10 samples getP95Latency asks for, and 21, the
\* fewest for which sorted[floor(0.95 n)] is not the largest sample.
SampleCounts == {<<9, 0>>, <<10, 0>>, <<10, 1>>, <<21, 1>>, <<21, 2>>}
SampleTool(cat) ==
  CASE cat = "status" -> "systemd_unit_status"
    [] cat = "query" -> "systemd_journal_query"
    [] cat = "action" -> "systemd_restart"
    [] cat = "heavy" -> "systemd_daemon_reload"
    [] cat = "diagnostic" -> "systemd_diagnose"

Samples(cat, n, k, fast, slow, f) ==
  [ i \in 1..(n + f) |->
      IF i <= f THEN CommandRow(SampleTool(cat), cat, slow, 0, "timeout", 1)
      ELSE CommandRow(SampleTool(cat), cat,
                      IF i <= f + n - k THEN fast ELSE slow, 1, "", 1) ]

Overrides == {NULL, 45000}

InitTimeout ==
  /\ now = 1
  /\ adaptive_timeout \in BOOLEAN
  /\ permissions = DefaultPermissions
  /\ fallback = FALSE
  /\ call = NoCall
  /\ issued = <<>>
  /\ response = NoResponse
  /\ trials = 0
  /\ row = InsertOrIgnore(NoRow, FirstRow(1))
  /\ circuit = hydrateState(row, 1)
  /\ \E cat \in Categories, nk \in SampleCounts, d \in SampleDurations,
        f \in {0, 2} :
       command_history = Samples(cat, nk[1], nk[2], d[1], d[2], f)
  /\ health_checks = <<>>
  /\ health = FreshHealth
  /\ probe = NoProbe
  /\ loop = FreshLoop
  /\ lastOp = Returned("init", NULL)

NextTimeout ==
  \/ \E cat \in Categories, override \in Overrides : nmGetTimeout(cat, override)
  \/ ProbeStart
  \/ \E ok \in BOOLEAN : ProbeDone(ok, FALSE)

SpecTimeout == InitTimeout /\ [][NextTimeout]_vars

\* The supervisor on a store whose calls may throw.
MaxTimeFaulty == 3
MaxHistoryFaulty == 1
MaxProbesFaulty == 1

NextStoreFails ==
  \/ TickUpTo(MaxTimeFaulty)
  \/ \E fail \in BOOLEAN : canExecute(fail)
  \/ \E fail \in BOOLEAN : ReportSuccess(MaxHistoryFaulty, fail)
  \/ \E fail \in BOOLEAN : ReportFailure(MaxHistoryFaulty, fail)
  \/ ProbeStartUpTo(MaxProbesFaulty)
  \/ \E ok, fail \in BOOLEAN : ProbeDone(ok, fail)

SpecStoreFails == Init /\ [][NextStoreFails]_vars

----------------------------------------------------------------------------
\* Properties of the circuit breaker.

\* The number of failure timestamps of fs inside the window trailing t.
InWindow(fs, t) ==
  Cardinality({ i \in 1..Len(fs) : fs[i] > t - circuit_failure_window_ms })

\* C1: a non-exempt recordFailure on a closed breaker opens it exactly when
\* the failure timestamps inside the trailing failure_window, the new one
\* included, number failure_threshold or more; timestamps that have left the
\* window do not count; and the breaker is never closed with
\* failure_threshold timestamps inside the window.
C1_OpensAtThreshold ==
  /\ [](circuit.state = "closed"
          => InWindow(circuit.failures, now) < circuit_failure_threshold)
  /\ [][ (recordFailure(FALSE, FALSE) /\ circuit.state = "closed")
           => /\ circuit'.state \in {"closed", "open"}
              /\ circuit'.state = "open"
                   <=> InWindow(Append(circuit.failures, now), now)
                         >= circuit_failure_threshold
              /\ circuit'.state = "open" => circuit'.opened_at = now ]_vars

\* C1 witness: the breaker has just opened on failures recorded at different
\* times while an older timestamp had already left the window.
C1_Witness ==
  /\ lastOp.op = "recordFailure"
  /\ circuit.state = "open"
  /\ circuit.opened_at = now
  /\ Len(circuit.failures) = circuit_failure_threshold
  /\ circuit.failures[1] < now
  /\ now > circuit_failure_window_ms + 1

\* C2: the recovery counter is 0 on entering half_open and grows by one per
\* recordSuccess and by nothing else; the breaker closes on the recordSuccess
\* that makes it recovery_threshold and stays half_open on every earlier one;
\* one non-exempt recordFailure in half_open opens it.
C2_HalfOpenRecovery ==
  /\ [](circuit.state = "half_open"
          => circuit.half_open_successes < circuit_recovery_threshold)
  /\ [][ (circuit.state # "half_open" /\ circuit'.state = "half_open")
           => circuit'.half_open_successes = 0 ]_vars
  /\ [][ (circuit.state = "half_open" /\ circuit'.state = "half_open"
          /\ ~recordSuccess(FALSE))
           => circuit'.half_open_successes = circuit.half_open_successes ]_vars
  /\ [][ (recordSuccess(FALSE) /\ circuit.state = "half_open")
           => /\ circuit'.half_open_successes = circuit.half_open_successes + 1
              /\ circuit'.state =
                   IF circuit.half_open_successes + 1 = circuit_recovery_threshold
                   THEN "closed" ELSE "half_open" ]_vars
  /\ [][ (recordFailure(FALSE, FALSE) /\ circuit.state = "half_open")
           => circuit'.state = "open" ]_vars

\* C2 witness: the breaker has just closed, its recovery counter at the
\* threshold.
C2_Witness ==
  /\ lastOp.op = "recordSuccess"
  /\ circuit.state = "closed"
  /\ circuit.half_open_successes = circuit_recovery_threshold
  /\ row.state = "closed"

\* C3: a restart on a persisted open row whose opened_at is open_duration or
\* more in the past leaves the breaker half_open, and the first canExecute
\* after the restart returns true with the breaker half_open.
C3_StaleOpenRehydrates ==
  /\ [][ (Restart /\ row.state = "open" /\ row.opened_at # NULL
          /\ now - row.opened_at >= circuit_open_duration_ms)
           => circuit'.state = "half_open" ]_vars
  /\ [][ (canExecute(FALSE) /\ lastOp.op = "restart" /\ row.state = "open"
          /\ row.opened_at # NULL
          /\ now - row.opened_at >= circuit_open_duration_ms)
           => lastOp'.ret = 1 /\ circuit'.state = "half_open" ]_vars

\* C3 witness: canExecute has returned true on a breaker rehydrated to
\* half_open (the row still says open: canExecute did not make the move).
C3_Witness ==
  /\ lastOp.op = "canExecute"
  /\ lastOp.ret = 1
  /\ circuit.state = "half_open"
  /\ row.state = "open"
  /\ now - row.opened_at >= circuit_open_duration_ms

\* C4: canExecute on an open breaker returns false and leaves it open while
\* now - opened_at < open_duration, and otherwise moves it to half_open with
\* the recovery counter 0 and returns true; on a closed or half_open breaker
\* it returns true and leaves the state; an open breaker has opened_at set.
C4_CanExecute ==
  /\ [](circuit.state = "open" => circuit.opened_at # NULL)
  /\ [][ canExecute(FALSE)
           => IF circuit.state = "open"
              THEN IF now - circuit.opened_at < circuit_open_duration_ms
                   THEN lastOp'.ret = 0 /\ circuit'.state = "open"
                   ELSE /\ lastOp'.ret = 1
                        /\ circuit'.state = "half_open"
                        /\ circuit'.half_open_successes = 0
              ELSE lastOp'.ret = 1 /\ circuit'.state = circuit.state ]_vars

\* C4 witness: the first canExecute at now - opened_at = open_duration has
\* moved the breaker to half_open.
C4_Witness ==
  /\ lastOp.op = "canExecute"
  /\ lastOp.ret = 1
  /\ circuit.state = "half_open"
  /\ row.state = "half_open"
  /\ circuit.half_open_successes = 0
  /\ now - circuit.opened_at = circuit_open_duration_ms

\* C5: no tool has run its external command while the breaker was open and
\* still in its cooldown (canExecute would have returned false).
C5_NoCommandWhileOpen ==
  (lastOp.op \in Tools /\ lastOp.ran)
    => ~(circuit.state = "open" /\ ~CooldownPassed(circuit, now))

\* The non-exempt failed outcomes logged inside the window trailing t.
LoggedFailures(h, t) ==
  Cardinality({ i \in 1..Len(h) :
                  /\ h[i].success = 0
                  /\ h[i].category # "diagnostic"
                  /\ h[i].executed_at > t - circuit_failure_window_ms })

\* C7: a breaker that has never left closed is not closed with
\* failure_threshold non-exempt failures logged inside the window, also when
\* the process was restarted between them.
C7_FailuresCountAcrossRestart ==
  (row = FirstRow(1) /\ circuit.state = "closed")
    => LoggedFailures(command_history, now) < circuit_failure_threshold

\* C8: a recordFailure for the diagnostic category appends exactly one
\* outcome with success = 0 and leaves the breaker (state, failure list,
\* opened_at, recovery counter) and its row as they were, in every state.
C8_ExemptFailure ==
  [][ \A tool \in ReportedTools, dur \in ReportedDurations, err \in ReportedErrors :
        nmRecordFailure(tool, "diagnostic", dur, err, FALSE)
          => /\ circuit' = circuit
             /\ row' = row
             /\ Len(command_history') = Len(command_history) + 1
             /\ SubSeq(command_history', 1, Len(command_history)) = command_history
             /\ command_history'[Len(command_history')].success = 0
             /\ command_history'[Len(command_history')].category = "diagnostic" ]_vars

\* C8 witness: a diagnostic failure has been logged on a half_open breaker,
\* which is still half_open.
C8_Witness ==
  /\ lastOp.op = "recordFailure"
  /\ lastOp.cat = "diagnostic"
  /\ circuit.state = "half_open"
  /\ Len(command_history) > 0
  /\ command_history[Len(command_history)].category = "diagnostic"
  /\ command_history[Len(command_history)].success = 0

\* C9: recordSuccess on a closed breaker leaves its failure list and state;
\* and until the breaker first leaves closed, the failure timestamps it holds
\* inside the window are the non-exempt failures logged inside the window,
\* whatever successes were logged among them.
C9_SuccessKeepsFailures ==
  /\ [][ \A tool \in ReportedTools, dur \in ReportedDurations :
          (nmRecordSuccess(tool, classifyCommand(tool), dur, FALSE)
           /\ circuit.state = "closed")
            => circuit' = circuit ]_vars
  /\ [](row = FirstRow(1) /\ circuit.state = "closed"
          => InWindow(circuit.failures, now) = LoggedFailures(command_history, now))

\* C9 witness: the breaker has opened on its threshold-th failure with a
\* success logged between two of the failures.
C9_Witness ==
  /\ lastOp.op = "recordFailure"
  /\ circuit.state = "open"
  /\ circuit.opened_at = now
  /\ Len(command_history) = circuit_failure_threshold + 1
  /\ \E i, j, k \in 1..Len(command_history) :
       /\ i < j /\ j < k
       /\ command_history[i].success = 0
       /\ command_history[j].success = 1
       /\ command_history[k].success = 0
  /\ \A i \in 1..Len(command_history) :
       command_history[i].category # "diagnostic"

\* C6: no call of canExecute, recordSuccess, recordFailure or ping throws to
\* its caller, also when the store throws.
C6_StoreFailureNeverRaises ==
  lastOp.op \in {"canExecute", "recordSuccess", "recordFailure", "ping"}
    => ~lastOp.raised

----------------------------------------------------------------------------
\* Properties of the adaptive timeout.

\* The last call was getTimeout without override for a category whose
\* learned P95 is below its baseline.
LearnedLower(op) ==
  /\ op.op = "getTimeout"
  /\ op.arg = NULL
  /\ adaptive_timeout
  /\ getP95Latency(command_history, op.cat) # NULL
  /\ getP95Latency(command_history, op.cat) < getBaseTimeout(op.cat)

Max(a, b) == IF a > b THEN a ELSE b

\* Twice the base B of the timeout formula, B = max(baseline, 1.5 x P95) with
\* adaptive mode on and enough samples, the baseline otherwise.
TwiceB(cat) ==
  LET p95 == getP95Latency(command_history, cat) IN
  IF adaptive_timeout /\ p95 # NULL
  THEN Max(2 * getBaseTimeout(cat), 3 * p95)
  ELSE 2 * getBaseTimeout(cat)

\* B as the code holds it: 1.5 x P95 rounded to an integer.
RoundedB(cat) ==
  LET p95 == getP95Latency(command_history, cat) IN
  IF adaptive_timeout /\ p95 # NULL
  THEN Max(getBaseTimeout(cat), JsRound(3 * p95, 2))
  ELSE getBaseTimeout(cat)

\* C11 as claimed: whatever the category, override and history, getTimeout
\* at health degraded returns exactly half of what it returns at healthy.
C11_DegradedIsHalf ==
  (lastOp.op = "getTimeout" /\ health.status = "degraded")
    => 2 * lastOp.ret = getTimeout(lastOp.cat, "healthy", lastOp.arg,
                                   command_history, adaptive_timeout)

\* C11 as amended: at health degraded getTimeout returns the override when
\* one is given, the same as at healthy, and otherwise half of its healthy
\* value rounded to the nearest integer, halves upwards.
C11_DegradedHalfRounded ==
  [][ \A cat \in Categories, override \in Overrides :
        (nmGetTimeout(cat, override) /\ health.status = "degraded")
          => LET healthy == getTimeout(cat, "healthy", override,
                                       command_history, adaptive_timeout) IN
             IF override # NULL
             THEN lastOp'.ret = healthy
             ELSE /\ 2 * lastOp'.ret \in {healthy, healthy + 1}
                  /\ lastOp'.ret = JsRound(healthy, 2) ]_vars

\* C11 witness: a degraded supervisor has answered 5001 where the healthy
\* answer is the odd 10001.
C11_Witness ==
  /\ lastOp.op = "getTimeout"
  /\ lastOp.arg = NULL
  /\ health.status = "degraded"
  /\ getTimeout(lastOp.cat, "healthy", NULL, command_history,
                adaptive_timeout) = 10001
  /\ lastOp.ret = 5001

C13_OverrideReturned ==
  [][ \A cat \in Categories, override \in Overrides \ {NULL} :
        nmGetTimeout(cat, override) => lastOp'.ret = override ]_vars

\* C13 witness: an unhealthy supervisor with adaptive mode on and a learned
\* P95 has answered the override.
C13_Witness ==
  /\ lastOp.op = "getTimeout"
  /\ lastOp.arg # NULL
  /\ lastOp.ret = lastOp.arg
  /\ health.status = "unhealthy"
  /\ adaptive_timeout
  /\ getP95Latency(command_history, lastOp.cat) # NULL

----------------------------------------------------------------------------
\* The health monitor probed directly, and by its background loop.

\* No probe is started once this many are on record.
MaxProbes == 7

NextHealth ==
  \/ ProbeStartUpTo(MaxProbes)
  \/ \E ok \in BOOLEAN : ProbeDone(ok, FALSE)

SpecHealth == Init /\ [][NextHealth]_vars

\* No timer fires once this many probes are on record.
MaxProbesLoop == 5

NextLoop ==
  \/ startBackgroundCheck
  \/ stopBackgroundCheck
  \/ CheckFires(MaxProbesLoop)
  \/ \E ok \in BOOLEAN : ProbeDone(ok, FALSE)

SpecLoop == Init /\ [][NextLoop]_vars

----------------------------------------------------------------------------
\* Properties of the health monitor.

\* The length of the run of probes of outcome ok (1 or 0) that ends the log.
TrailingRun(h, ok) ==
  LET other == { i \in 1..Len(h) : h[i].ping_success # ok } IN
  IF other = {} THEN Len(h)
  ELSE Len(h) - (CHOOSE i \in other : \A j \in other : j <= i)

\* C14: a failed probe of a healthy monitor leaves it degraded, and a
\* successful probe of an unhealthy monitor leaves it degraded.
C14_FirstProbeDegrades ==
  [][ /\ (ProbeDone(FALSE, FALSE) /\ health.status = "healthy")
          => health'.status = "degraded"
      /\ (ProbeDone(TRUE, FALSE) /\ health.status = "unhealthy")
          => health'.status = "degraded" ]_vars

\* C14 witness: a successful probe has just moved an unhealthy monitor to
\* degraded.
C14_Witness ==
  /\ lastOp.op = "ping"
  /\ lastOp.ret = 1
  /\ health.status = "degraded"
  /\ health_checks[Len(health_checks)].status = "unhealthy"
  /\ \E i \in 1..Len(health_checks) :
       /\ health_checks[i].status = "healthy"
       /\ health_checks[i].ping_success = 0

\* C15: the counters are the runs of equal outcomes that end the probe log
\* (a probe of the other outcome puts the run at zero); a failed probe of a
\* degraded monitor makes it unhealthy exactly when it is the 3rd failure in
\* a row, a successful one makes it healthy exactly when it is the 3rd
\* success in a row, and otherwise the monitor stays degraded.
C15_ThreeInARow ==
  /\ [](/\ health.consecutive_failures = TrailingRun(health_checks, 0)
         /\ health.consecutive_successes = TrailingRun(health_checks, 1))
  /\ [][ /\ (ProbeDone(FALSE, FALSE) /\ health.status = "degraded")
             => /\ health'.status \in {"degraded", "unhealthy"}
                /\ (health'.status = "unhealthy")
                     <=> (TrailingRun(health_checks', 0) = 3)
         /\ (ProbeDone(TRUE, FALSE) /\ health.status = "degraded")
             => /\ health'.status \in {"degraded", "healthy"}
                /\ (health'.status = "healthy")
                     <=> (TrailingRun(health_checks', 1) = 3) ]_vars

\* C15 witness: three failures in a row took a healthy monitor to unhealthy,
\* and the three successes in a row that followed, the first of which entered
\* degraded, took it back to healthy.
C15_Witness ==
  /\ Len(health_checks) = 6
  /\ health.status = "healthy"
  /\ \A i \in 1..3 : health_checks[i].ping_success = 0
  /\ \A i \in 4..6 : health_checks[i].ping_success = 1
  /\ health_checks[1].status = "healthy"
  /\ health_checks[3].status = "degraded"
  /\ health_checks[4].status = "unhealthy"
  /\ health_checks[6].status = "degraded"

\* C16: when a probe of the background loop completes, exactly one timer is
\* added to the pending ones; it is due health_check_interval after the
\* completion if the status after the probe is healthy and
\* health_degraded_interval after it otherwise, and it is the one intervalId
\* holds.
C16_ReschedulesByStatus ==
  [][ \A ok \in BOOLEAN :
        (ProbeDone(ok, FALSE) /\ loop.checking)
          => \E t \in loop'.pending :
               /\ t \notin loop.pending
               /\ loop'.pending = loop.pending \cup {t}
               /\ loop'.intervalId = t.id
               /\ ~loop'.checking
               /\ t.due = now + (IF health'.status = "healthy"
                                 THEN health_check_interval_ms
                                 ELSE health_degraded_interval_ms) ]_vars

\* C16 witness: the probe that moved the monitor from healthy to degraded
\* has set the next timer health_degraded_interval ahead.
C16_Witness ==
  /\ lastOp.op = "ping"
  /\ health.status = "degraded"
  /\ health_checks[Len(health_checks)].status = "healthy"
  /\ \E t \in loop.pending :
       /\ t.id = loop.intervalId
       /\ t.due = now + health_degraded_interval_ms

\* C17: once stopBackgroundCheck has returned, and until the loop is started
\* again, no probe timer is pending.
C17_StopIsFinal ==
  loop.stopped => loop.pending = {}

----------------------------------------------------------------------------
\* The store over days, with restarts.

\* The moments at which something happens: the first start, and a
\* millisecond, a day, a day and a millisecond, a week, a week and a
\* millisecond, and 8 days after it.
Moments ==
  {1, 2, 1 + DAY_MS, 2 + DAY_MS, 1 + WEEK_MS, 2 + WEEK_MS, 1 + WEEK_MS + DAY_MS}

\* Time passes until moment m.
AdvanceTo(m) ==
  /\ m > now
  /\ now' = m
  /\ UNCHANGED <<cfgVars, srvVars, cbVars, command_history, hmVars, lastOp>>

\* Outcomes and probes are logged while the store holds fewer than this many
\* of each.
MaxHistoryRetention == 2
MaxProbesRetention == 1

NextRetention ==
  \/ \E m \in Moments : AdvanceTo(m)
  \/ ReportSuccess(MaxHistoryRetention, FALSE)
  \/ ProbeStartUpTo(MaxProbesRetention)
  \/ \E ok \in BOOLEAN : ProbeDone(ok, FALSE)
  \/ Restart

SpecRetention == Init /\ [][NextRetention]_vars

\* The supervisor restarted with its breaker and its health in any state.
MaxHistoryReboot == 3
MaxProbesReboot == 2

NextReboot ==
  \/ TickUpTo(MaxTimeFaulty)
  \/ ReportFailure(MaxHistoryReboot, FALSE)
  \/ ProbeStartUpTo(MaxProbesReboot)
  \/ \E ok \in BOOLEAN : ProbeDone(ok, FALSE)
  \/ Restart

SpecReboot == Init /\ [][NextReboot]_vars

----------------------------------------------------------------------------
\* The store's saveCircuitState called with any Partial<CircuitStateRow>.

\* A field left out of the update.
AbsentState == "absent"
Absent == -2

\* The updates: each field is left out or takes one of a few values.
Updates(t) ==
  [ state : CircuitStates \cup {AbsentState},
    failure_count : {Absent, 0, 1},
    last_failure_at : {Absent, NULL, t},
    opened_at : {Absent, NULL, t},
    recovery_successes : {Absent, 0, 1} ]

\* The fields update u supplies.
SuppliedFields(u) ==
  { k \in DOMAIN u : IF k = "state" THEN u[k] # AbsentState ELSE u[k] # Absent }

\* The Partial<CircuitStateRow> of update u.
Partial(u) == [ k \in SuppliedFields(u) |-> u[k] ]

\* saveCircuitState(db, Partial(u))
SaveCircuit(u) ==
  /\ row' = saveCircuitState(row, Partial(u), now)
  /\ lastOp' = Returned("saveCircuitState", NULL)
  /\ UNCHANGED <<now, cfgVars, srvVars, circuit, command_history, hmVars>>

NextStore ==
  \/ TickUpTo(MaxTimeFaulty)
  \/ \E u \in Updates(now) : SaveCircuit(u)

SpecStore == Init /\ [][NextStore]_vars

----------------------------------------------------------------------------
\* Properties of the process start and of the store.

\* C18: a process start leaves the health state healthy with both counters
\* 0 and no latency samples, whatever the stored row and the stored health
\* checks are, while the breaker's state is the stored one (a stored open
\* whose cooldown has passed being resumed as half_open).
C18_StartsHealthy ==
  [][ Restart
        => /\ health'.status = "healthy"
           /\ health'.consecutive_failures = 0
           /\ health'.consecutive_successes = 0
           /\ health'.latency_samples = <<>>
           /\ health_checks' = health_checks
           /\ circuit'.state =
                IF row.state = "open" /\ row.opened_at # NULL
                   /\ now - row.opened_at >= circuit_open_duration_ms
                THEN "half_open" ELSE row.state ]_vars

\* C18 witness: the process has started healthy on a store whose row says
\* open, which the breaker resumed, and whose last health check was logged
\* in status degraded.
C18_Witness ==
  /\ lastOp.op = "restart"
  /\ health.status = "healthy"
  /\ row.state = "open"
  /\ circuit.state = "open"
  /\ Len(health_checks) > 0
  /\ health_checks[Len(health_checks)].status = "degraded"

NoOlderThan(rows, col, age) ==
  SelectSeq(rows, LAMBDA r : now - r[col] <= age)

\* rows is the beginning of longer.
IsPrefix(rows, longer) ==
  /\ Len(rows) <= Len(longer)
  /\ SubSeq(longer, 1, Len(rows)) = rows

\* C20: a process start leaves in command_history exactly the rows no older
\* than 7 days and in health_checks exactly the rows no older than 24 hours;
\* any other step leaves every row of both tables in place.
C20_SweepAtStartOnly ==
  [][ IF Restart
      THEN /\ command_history' = NoOlderThan(command_history, "executed_at", WEEK_MS)
           /\ health_checks' = NoOlderThan(health_checks, "checked_at", DAY_MS)
      ELSE /\ IsPrefix(command_history, command_history')
           /\ IsPrefix(health_checks, health_checks') ]_vars

\* C20 witness: a start has deleted one outcome, and kept one that is a day
\* old and was logged when the deleted one was a week old or older.
C20_Witness ==
  /\ lastOp.op = "restart"
  /\ lastOp.arg = 1
  /\ Len(command_history) = 1
  /\ now - command_history[1].executed_at = DAY_MS
  /\ command_history[1].executed_at >= 1 + WEEK_MS

----------------------------------------------------------------------------
\* Starts of the process on a store whose sweep may throw.

MaxHistorySweep == 2

\* An outcome is reported to the supervisor, when there is one.
ReportWhileStarted(limit) ==
  /\ Started
  /\ ReportSuccess(limit, FALSE)

NextSweepFails ==
  \/ \E m \in Moments : AdvanceTo(m)
  \/ ReportWhileStarted(MaxHistorySweep)
  \/ Restart
  \/ \E step \in {1, 2} : StartSweepFails(step)

SpecSweepFails == Init /\ [][NextSweepFails]_vars

\* C21: no start of the process throws, also when the retention sweep fails.
C21_SweepFailureSkipped ==
  lastOp.op = "restart" => ~lastOp.raised

\* C22: table circuit_state holds its row in every state; the first start
\* creates it closed; a later start leaves the row's state, opened_at and
\* recovery_successes as stored.
C22_SingletonRow ==
  /\ [](/\ row # NoRow
         /\ row.state \in CircuitStates
         /\ InsertOrIgnore(NoRow, FirstRow(now)).state = "closed")
  /\ [][ Restart
           => /\ row'.state = row.state
              /\ row'.opened_at = row.opened_at
              /\ row'.recovery_successes = row.recovery_successes ]_vars

\* C22 witness: a start some time after the breaker opened has left the row
\* open with its opened_at, the breaker resuming half_open from it.
C22_Witness ==
  /\ lastOp.op = "restart"
  /\ row.state = "open"
  /\ row.opened_at # NULL
  /\ row.updated_at < now
  /\ circuit.state = "half_open"

----------------------------------------------------------------------------
\* The store's queries on a command_history that already holds outcomes.

\* getP95Latency(db, cat), as the store's caller sees it.
QueryP95(cat) ==
  /\ lastOp' = Call("getP95Latency", cat, NULL, getP95Latency(command_history, cat))
  /\ UNCHANGED <<now, cfgVars, srvVars, cbVars, command_history, hmVars>>

\* Numbers of successful outcomes of the queried category: around the 10 the
\* query asks for, 21 (the fewest with an index below the largest), and
\* around the 100 the query reads.
HistoryCounts == {9, 10, 21, 100, 101, 102}

\* A command_history logged one outcome a millisecond: n successes of cat,
\* the last `slow` of them taking 4000 ms, those behind the 100 most recent
\* 500 ms and the others 1000 ms; then g successes of another category and f
\* failures of cat, of 1 ms each.
History(cat, n, slow, g, f) ==
  LET other == IF cat = "status" THEN "query" ELSE "status" IN
  [ i \in 1..(n + g + f) |->
      IF i <= n
      THEN CommandRow(SampleTool(cat), cat,
                      IF i > n - slow THEN 4000
                      ELSE IF i <= n - 100 THEN 500 ELSE 1000,
                      1, "", i)
      ELSE IF i <= n + g
           THEN CommandRow(SampleTool(other), other, 1, 1, "", i)
           ELSE CommandRow(SampleTool(cat), cat, 1, 0, "timeout", i) ]

InitP95 ==
  /\ adaptive_timeout = TRUE
  /\ permissions = DefaultPermissions
  /\ fallback = FALSE
  /\ call = NoCall
  /\ issued = <<>>
  /\ response = NoResponse
  /\ trials = 0
  /\ row = InsertOrIgnore(NoRow, FirstRow(1))
  /\ circuit = hydrateState(row, 1)
  /\ \E cat \in Categories, n \in HistoryCounts, slow \in {1, 2, 5},
        g \in {0, 3}, f \in {0, 3} :
       command_history = History(cat, n, slow, g, f)
  /\ now = Len(command_history) + 1
  /\ health_checks = <<>>
  /\ health = FreshHealth
  /\ probe = NoProbe
  /\ loop = FreshLoop
  /\ lastOp = Returned("init", NULL)

NextP95 == \E cat \in Categories : QueryP95(cat)

SpecP95 == InitP95 /\ [][NextP95]_vars

\* The positions in h of the successful outcomes of cat.
Successes(h, cat) ==
  { i \in 1..Len(h) : h[i].category = cat /\ h[i].success = 1 }

\* Those of them with fewer than 100 later ones: the 100 most recent.
Recent100(h, cat) ==
  { i \in Successes(h, cat) :
      Cardinality({ j \in Successes(h, cat) : j > i }) < 100 }

\* The element at index k (from 0) of the ascending durations of the
\* outcomes at positions S.
ElementAt(h, S, k) ==
  CHOOSE v \in { h[i].duration_ms : i \in S } :
    /\ Cardinality({ i \in S : h[i].duration_ms < v }) <= k
    /\ Cardinality({ i \in S : h[i].duration_ms <= v }) > k

\* C23: getP95Latency returns null when the category has fewer than 10
\* successful outcomes, and otherwise the element at index floor(0.95 n) of
\* the ascending durations of its n most recent successful outcomes, n at
\* most 100; nothing else in the table has a part in it.
C23_P95OfRecent100 ==
  [][ \A cat \in Categories :
        QueryP95(cat)
          => LET S == Recent100(command_history, cat)
                 n == Cardinality(S) IN
             /\ n <= 100
             /\ lastOp'.ret =
                  IF Cardinality(Successes(command_history, cat)) < 10 THEN NULL
                  ELSE ElementAt(command_history, S, (95 * n) \div 100) ]_vars

\* C23 witness: the query has answered 4000 for a category with 102
\* successful outcomes, the two oldest of 500 ms, 3 failed ones, and 5 of
\* 4000 ms among the 100 most recent.
C23_Witness ==
  /\ lastOp.op = "getP95Latency"
  /\ lastOp.ret = 4000
  /\ Cardinality(Successes(command_history, lastOp.cat)) = 102
  /\ command_history[1].duration_ms = 500
  /\ \E i \in 1..Len(command_history) :
       command_history[i].category = lastOp.cat /\ command_history[i].success = 0
  /\ Cardinality({ i \in Recent100(command_history, lastOp.cat) :
                     command_history[i].duration_ms = 4000 }) = 5

----------------------------------------------------------------------------
\* The success rate of the last hour.

HOUR_MS == 60 * 60 * 1000

\* An empty window reported as rate 0.
getRecentSuccessRate_ZeroWhenEmpty(h, t) ==
  LET recent == SelectSeq(h, LAMBDA r : r.executed_at > t - HOUR_MS)
      good == SelectSeq(recent, LAMBDA r : r.success = 1) IN
  IF Len(recent) = 0 THEN [ num |-> 0, den |-> 1 ]
  ELSE [ num |-> Len(good), den |-> Len(recent) ]

\* getRecentSuccessRate at time t: SELECT COUNT(*) AS total, SUM(success) AS
\* successes FROM command_history WHERE executed_at > t - HOUR_MS, then 1.0 if
\* total is 0 and successes / total otherwise.  The quotient is kept as the
\* fraction num / den.
getRecentSuccessRate(h, t) ==
  LET recent == SelectSeq(h, LAMBDA r : r.executed_at > t - HOUR_MS)
      good == SelectSeq(recent, LAMBDA r : r.success = 1) IN
  IF Len(recent) = 0 THEN [ num |-> 1, den |-> 1 ]
  ELSE [ num |-> Len(good), den |-> Len(recent) ]

\* NeverhangManager.getSuccessRate
getSuccessRate ==
  /\ lastOp' = Call("getSuccessRate", "", NULL,
                    getRecentSuccessRate(command_history, now))
  /\ UNCHANGED <<now, cfgVars, srvVars, cbVars, command_history, hmVars>>

\* The moments at which something happens: the first start, and a
\* millisecond, an hour, and an hour and a millisecond after it.
RateMoments == {1, 2, 1 + HOUR_MS, 2 + HOUR_MS}

MaxHistoryRate == 3

NextRate ==
  \/ \E m \in RateMoments : AdvanceTo(m)
  \/ ReportSuccess(MaxHistoryRate, FALSE)
  \/ ReportFailure(MaxHistoryRate, FALSE)
  \/ getSuccessRate

SpecRate == Init /\ [][NextRate]_vars

\* The positions in h of the outcomes logged less than an hour before t.
InLastHour(h, t) == { i \in 1..Len(h) : t - h[i].executed_at < HOUR_MS }

\* C24: getSuccessRate returns 1 when no outcome was logged in the last
\* hour, and otherwise the number of successful outcomes of the last hour
\* divided by the number of all outcomes of the last hour.
C24_SuccessRate ==
  [][ getSuccessRate
        => LET W == InLastHour(command_history, now)
               good == { i \in W : command_history[i].success = 1 } IN
           /\ ~lastOp'.raised
           /\ lastOp'.ret.den > 0
           /\ IF W = {}
              THEN lastOp'.ret.num = lastOp'.ret.den
              ELSE lastOp'.ret.num * Cardinality(W)
                     = Cardinality(good) * lastOp'.ret.den ]_vars

\* C24 witness: the rate 1 has been returned on a store whose outcomes, a
\* failure among them, are all an hour old or older.
C24_Witness ==
  /\ lastOp.op = "getSuccessRate"
  /\ lastOp.ret.num = lastOp.ret.den
  /\ InLastHour(command_history, now) = {}
  /\ \E i \in 1..Len(command_history) : command_history[i].success = 0

----------------------------------------------------------------------------
\* The MCP server's tool handlers, one invocation at a time, under the
\* configurations loadConfig can return.

\* The units callers name.
ServerUnits ==
  {"sshd", "sshd.service", "nginx", "systemd-journald.service", "cron.timer"}

\* The permissions of the config files tried.
ConfigFiles ==
  { [start_stop |-> TRUE, restart |-> TRUE],
    [enable_disable |-> TRUE,
     whitelist |-> <<"nginx.service", "sshd.service">>],
    [daemon_reload |-> TRUE, blacklist |-> <<"nginx.*">>],
    [read |-> FALSE] }

\* The sets of levels switched on through the environment.
EnvOverrides ==
  { {}, {"restart"}, {"start_stop", "enable_disable", "daemon_reload"} }

ServerConfigs ==
  {loadConfig(TRUE, FALSE, <<>>, {})}
    \cup {loadConfig(FALSE, TRUE, f, {}) : f \in ConfigFiles}
    \cup {loadConfig(FALSE, FALSE, <<>>, e) : e \in EnvOverrides}

InitServer ==
  /\ now = 1
  /\ adaptive_timeout = TRUE
  /\ permissions \in ServerConfigs
  /\ fallback \in BOOLEAN
  /\ call = NoCall
  /\ issued = <<>>
  /\ response = NoResponse
  /\ trials = 0
  /\ row = InsertOrIgnore(NoRow, FirstRow(1))
  /\ circuit = hydrateState(row, 1)
  /\ command_history = <<>>
  /\ health_checks = <<>>
  /\ health = FreshHealth
  /\ probe = NoProbe
  /\ loop = FreshLoop
  /\ lastOp = Returned("init", NULL)

NextServer ==
  \/ \E tool \in Tools \cup UnitTools :
       \E unit \in (IF tool \in UnitTools THEN ServerUnits ELSE {""}) :
         \E use_ai \in (IF tool = "systemd_diagnose" THEN BOOLEAN ELSE {FALSE}) :
           Invoke(tool, unit, use_ai)
  \/ \E ok \in BOOLEAN : CommandCompletes(ok)
  \/ TimeoutFires
  \/ \E ok \in BOOLEAN : AiCompletes(ok)

SpecServer == InitServer /\ [][NextServer]_vars

\* The timer armed by withTimeout fires once its delay has passed, whatever
\* else happens: the event loop is never blocked by an await.  Nothing
\* obliges an external command or the API call to end.
SpecServerFair == SpecServer /\ WF_vars(TimeoutFires)

\* C25: every tool invocation eventually returns a response to its caller,
\* even if the external operation it started (a systemctl or journalctl
\* command, or the AI diagnosis call) never completes.
C25_EveryCallReturns == (call.pc # "idle") ~> (call.pc = "idle")

\* The level the README gives for a mutating command.
LevelOfCommand(cmd) ==
  IF cmd \in {"systemctl start", "systemctl stop"} THEN "start_stop"
  ELSE IF cmd \in {"systemctl restart", "systemctl reload"} THEN "restart"
  ELSE IF cmd \in {"systemctl enable", "systemctl disable"} THEN "enable_disable"
  ELSE IF cmd = "systemctl daemon-reload" THEN "daemon_reload"
  ELSE "read"

\* C27: a mutating command (start, stop, restart, reload, enable, disable,
\* daemon-reload) is issued only when its permission level is enabled; with
\* the default configuration no such command is ever issued and every call
\* of an action tool returns "Permission denied" with nothing run.
C27_ActionsNeedPermission ==
  /\ \A i \in 1..Len(issued) :
       permissions[LevelOfCommand(issued[i].cmd)] = TRUE
  /\ permissions = DefaultPermissions
       => /\ \A i \in 1..Len(issued) : LevelOfCommand(issued[i].cmd) = "read"
          /\ call.tool \notin ActionTools
          /\ response.tool \in ActionTools
               => response.text = "Permission denied" /\ issued = <<>>

\* C27 witness: under the default configuration systemd_restart has been
\* called and has returned "Permission denied".
C27_Witness ==
  /\ permissions = DefaultPermissions
  /\ response.tool = "systemd_restart"
  /\ response.text = "Permission denied"
  /\ issued = <<>>

\* C28: no tool issues a systemctl or journalctl command naming a unit for
\* which checkUnitAccess is false.
C28_BlockedUnitsNeverNamed ==
  \A i \in 1..Len(issued) :
    issued[i].unit # "" => checkUnitAccess(permissions, issued[i].unit)

----------------------------------------------------------------------------
\* checkUnitAccess over short units and patterns.

MaxUnitLen == 3
MaxPatterns == 1

\* The characters of the units tried.
UnitChars == {"a", "b", "."}

\* The strings of at most n characters.
RECURSIVE Strings(_)
Strings(n) ==
  IF n = 0 THEN {""}
  ELSE Strings(n - 1) \cup {str \o c : str \in Strings(n - 1), c \in UnitChars}

\* The patterns of the lists tried.
Patterns == {"a*", "*.b", "a.b", "*a*b"}

\* The lists of at most n patterns.
RECURSIVE PatternLists(_)
PatternLists(n) ==
  IF n = 0 THEN {<<>>}
  ELSE PatternLists(n - 1)
         \cup {Append(l, pat) : l \in PatternLists(n - 1), pat \in Patterns}

InitAccess ==
  /\ now = 1
  /\ adaptive_timeout = TRUE
  /\ \E w \in PatternLists(MaxPatterns), b \in PatternLists(MaxPatterns) :
       permissions = loadConfig(FALSE, TRUE, [whitelist |-> w, blacklist |-> b], {})
  /\ fallback = FALSE
  /\ call = NoCall
  /\ issued = <<>>
  /\ response = NoResponse
  /\ trials = 0
  /\ row = InsertOrIgnore(NoRow, FirstRow(1))
  /\ circuit = hydrateState(row, 1)
  /\ command_history = <<>>
  /\ health_checks = <<>>
  /\ health = FreshHealth
  /\ probe = NoProbe
  /\ loop = FreshLoop
  /\ lastOp = Returned("init", NULL)

\* A handler asks whether a unit may be touched.
UnitAccess(unit) ==
  /\ lastOp' = Call("checkUnitAccess", "", unit, checkUnitAccess(permissions, unit))
  /\ UNCHANGED <<now, cfgVars, srvVars, cbVars, command_history, hmVars>>

NextAccess == \E unit \in Strings(MaxUnitLen) : UnitAccess(unit)

SpecAccess == InitAccess /\ [][NextAccess]_vars

\* str matches the glob: str can be cut into consecutive pieces, one for each
\* character of the pattern, any piece for a "*" and the character itself
\* for every other character.
Matches(str, pattern) ==
  \E cut \in [0..Len(pattern) -> 0..Len(str)] :
    /\ cut[0] = 0
    /\ cut[Len(pattern)] = Len(str)
    /\ \A i \in 1..Len(pattern) :
         IF SubSeq(pattern, i, i) = "*"
         THEN cut[i] >= cut[i - 1]
         ELSE /\ cut[i] = cut[i - 1] + 1
              /\ SubSeq(str, cut[i], cut[i]) = SubSeq(pattern, i, i)

MatchesAny(str, patterns) ==
  \E i \in 1..Len(patterns) : Matches(str, patterns[i])

\* C26: checkUnitAccess(unit) is true exactly when the unit matches no
\* blacklist pattern and the whitelist is empty or holds a pattern the unit
\* matches; a unit matching both lists is refused.
C26_BlacklistWins ==
  lastOp.op = "checkUnitAccess"
    => /\ ~lastOp.raised
       /\ lastOp.ret
            = (/\ ~MatchesAny(lastOp.arg, permissions.blacklist)
               /\ \/ permissions.whitelist = <<>>
                  \/ MatchesAny(lastOp.arg, permissions.whitelist))

\* C26 witness: access has been refused to a unit that matches a pattern of
\* the whitelist and a pattern of the blacklist.
C26_Witness ==
  /\ lastOp.op = "checkUnitAccess"
  /\ lastOp.ret = FALSE
  /\ MatchesAny(lastOp.arg, permissions.whitelist)
  /\ MatchesAny(lastOp.arg, permissions.blacklist)

----------------------------------------------------------------------------
\* The read-only queries of the breaker and the supervisor's getStats.

\* CircuitBreaker.getState
getState ==
  /\ circuit' = [circuit EXCEPT !.failures = cleanOldFailures(@, now)]
  /\ lastOp' = Returned("getState", circuit.state)
  /\ UNCHANGED <<now, cfgVars, srvVars, row, command_history, hmVars>>

\* The remaining time left negative once the cooldown is over.
TimeUntilHalfOpen_Unclamped(c, t) ==
  IF c.state # "open" \/ c.opened_at = NULL THEN NULL
  ELSE circuit_open_duration_ms - (t - c.opened_at)

\* The value of getTimeUntilHalfOpen on breaker state c at time t.
TimeUntilHalfOpen(c, t) ==
  IF c.state # "open" \/ c.opened_at = NULL THEN NULL
  ELSE Max(0, circuit_open_duration_ms - (t - c.opened_at))

\* CircuitBreaker.getTimeUntilHalfOpen
getTimeUntilHalfOpen ==
  /\ lastOp' = Returned("getTimeUntilHalfOpen", TimeUntilHalfOpen(circuit, now))
  /\ UNCHANGED <<now, cfgVars, srvVars, cbVars, command_history, hmVars>>

\* CircuitBreaker.getRecentFailures
getRecentFailures ==
  /\ circuit' = [circuit EXCEPT !.failures = cleanOldFailures(@, now)]
  /\ lastOp' = Returned("getRecentFailures", Len(circuit'.failures))
  /\ UNCHANGED <<now, cfgVars, srvVars, row, command_history, hmVars>>

\* NeverhangManager.getStats (without latency_p95_ms, which reads the
\* latency samples only).
getStats ==
  /\ circuit' = [circuit EXCEPT !.failures = cleanOldFailures(@, now)]
  /\ lastOp' = Returned("getStats",
                        [ status |-> health.status,
                          circuit |-> circuit.state,
                          circuit_opens_in |-> TimeUntilHalfOpen(circuit, now),
                          latency_ms |-> health.latency_ms,
                          recent_failures |-> Len(circuit'.failures),
                          last_success |-> health.last_success,
                          last_failure |-> health.last_failure ])
  /\ UNCHANGED <<now, cfgVars, srvVars, row, command_history, hmVars>>

MaxTimeStats == 4
MaxProbesStats == 1

NextStats ==
  \/ TickUpTo(MaxTimeStats)
  \/ canExecute(FALSE)
  \/ recordSuccess(FALSE)
  \/ \E exclude \in BOOLEAN : recordFailure(exclude, FALSE)
  \/ getState
  \/ getTimeUntilHalfOpen
  \/ getRecentFailures
  \/ getStats
  \/ ProbeStartUpTo(MaxProbesStats)
  \/ \E ok \in BOOLEAN : ProbeDone(ok, FALSE)
  \/ Restart

SpecStats == Init /\ [][NextStats]_vars

\* C29: an open breaker becomes half_open only in a call of canExecute().
C29_OnlyCanExecute ==
  [][ (circuit.state = "open" /\ circuit'.state = "half_open")
        => canExecute(FALSE) ]_vars

\* C29, amended: an open breaker becomes half_open only in a call of
\* canExecute() or when the process is started again on a record that has
\* been open for open_duration or longer.  getState, getTimeUntilHalfOpen,
\* getRecentFailures, getStats, recordSuccess, recordFailure and the health
\* probe leave an open breaker open, and once open_duration has elapsed
\* getStats reports the circuit open with circuit_opens_in = 0.
C29_OnlyCanExecuteOrStart ==
  [][ /\ (circuit.state = "open" /\ circuit'.state = "half_open")
           => \/ canExecute(FALSE)
              \/ Restart /\ now - row.opened_at >= circuit_open_duration_ms
      /\ (getStats /\ circuit.state = "open")
           => /\ circuit'.state = "open"
              /\ lastOp'.ret.circuit = "open"
              /\ CooldownPassed(circuit, now)
                   => lastOp'.ret.circuit_opens_in = 0 ]_vars

\* C29 witness: getStats has reported an open circuit with circuit_opens_in
\* = 0 after open_duration had elapsed, and the breaker is still open.
C29_Witness ==
  /\ lastOp.op = "getStats"
  /\ circuit.state = "open"
  /\ CooldownPassed(circuit, now)
  /\ lastOp.ret.circuit = "open"
  /\ lastOp.ret.circuit_opens_in = 0

\* C30: every step that takes the breaker into open from closed or half_open
\* sets opened_at to the time of that step; while the breaker stays open
\* opened_at keeps that value, a recorded failure included, and canExecute()
\* is denied, leaving the breaker open, until open_duration has passed since.
C30_OpenedAtStamped ==
  [][ /\ (circuit.state # "open" /\ circuit'.state = "open")
           => circuit'.opened_at = now
      /\ (circuit.state = "open" /\ circuit'.state = "open")
           => circuit'.opened_at = circuit.opened_at
      /\ (circuit.state = "open" /\ \E exclude \in BOOLEAN : recordFailure(exclude, FALSE))
           => circuit'.state = "open"
      /\ (/\ canExecute(FALSE)
          /\ circuit.state = "open"
          /\ now - circuit.opened_at < circuit_open_duration_ms)
           => /\ lastOp'.ret = 0
              /\ circuit'.state = "open" ]_vars

\* C30 witness: a breaker that opened after the first millisecond has denied
\* canExecute() at the last millisecond of its cooldown, with a failure
\* recorded while it was open.
C30_Witness ==
  /\ lastOp.op = "canExecute"
  /\ lastOp.ret = 0
  /\ circuit.state = "open"
  /\ circuit.opened_at > 1
  /\ now - circuit.opened_at = circuit_open_duration_ms - 1
  /\ \E i \in 1..Len(circuit.failures) : circuit.failures[i] > circuit.opened_at

----------------------------------------------------------------------------
\* Restarts on a persisted record.

\* The record is open and its cooldown is over at time t.
StaleOpen(r, t) ==
  r.state = "open" /\ r.opened_at # NULL
    /\ t - r.opened_at >= circuit_open_duration_ms

\* C31: a restart on a persisted record that is closed, half_open, or open
\* with its cooldown still running resumes with the record's state,
\* opened_at and recovery successes and leaves the record as it is.  An open
\* breaker on an open record denies canExecute() exactly as long as the time
\* is below the record's opened_at + open_duration, and a half_open breaker
\* on a half_open record closes on the success that brings the record's
\* count of successes to recovery_threshold, not before.
C31_ResumesAsPersisted ==
  [][ /\ (Restart /\ ~StaleOpen(row, now))
           => /\ circuit'.state = row.state
              /\ circuit'.opened_at = row.opened_at
              /\ circuit'.half_open_successes = row.recovery_successes
              /\ row' = row
      /\ (canExecute(FALSE) /\ circuit.state = "open" /\ row.state = "open")
           => /\ row.opened_at # NULL
              /\ lastOp'.ret = 0
                   <=> now < row.opened_at + circuit_open_duration_ms
      /\ (recordSuccess(FALSE) /\ circuit.state = "half_open"
            /\ row.state = "half_open")
           => (circuit'.state = "closed"
                 <=> row.recovery_successes + 1 >= circuit_recovery_threshold) ]_vars

\* C31 witness: a breaker restarted while open (its failure list is empty)
\* has denied canExecute() in the last millisecond of the cooldown that began
\* before the restart.
C31_Witness ==
  /\ lastOp.op = "canExecute"
  /\ lastOp.ret = 0
  /\ circuit.state = "open"
  /\ circuit.failures = <<>>
  /\ row.state = "open"
  /\ now = row.opened_at + circuit_open_duration_ms - 1

----------------------------------------------------------------------------
\* The outcomes the supervisor logs.

\* C32: a recordSuccess or recordFailure call of the supervisor appends one
\* outcome, after the outcomes already logged, carrying the call's tool,
\* category, duration, success flag and error kind and the time of the call,
\* whatever the circuit state; when the call changes the circuit state the
\* persisted record shows the state after the change.  Nothing else touches
\* the log.
C32_OneOutcomePerCall ==
  [][ /\ \A tool \in ReportedTools, dur \in ReportedDurations :
           nmRecordSuccess(tool, classifyCommand(tool), dur, FALSE)
             => command_history'
                  = Append(command_history,
                           [ tool_name |-> tool,
                             category |-> classifyCommand(tool),
                             duration_ms |-> dur, success |-> 1,
                             error_type |-> "", executed_at |-> now ])
      /\ \A tool \in ReportedTools, dur \in ReportedDurations,
            err \in ReportedErrors :
           nmRecordFailure(tool, classifyCommand(tool), dur, err, FALSE)
             => command_history'
                  = Append(command_history,
                           [ tool_name |-> tool,
                             category |-> classifyCommand(tool),
                             duration_ms |-> dur, success |-> 0,
                             error_type |-> err, executed_at |-> now ])
      /\ command_history' # command_history
           => /\ lastOp'.op \in {"recordSuccess", "recordFailure"}
              /\ Len(command_history') = Len(command_history) + 1
      /\ circuit'.state # circuit.state
           => /\ row'.state = circuit'.state
              /\ row'.opened_at = circuit'.opened_at
              /\ row'.recovery_successes = circuit'.half_open_successes
              /\ row'.updated_at = now ]_vars

\* C32 witness: a failure reported while the circuit was open has been
\* logged after the outcomes that opened it.
C32_Witness ==
  /\ lastOp.op = "recordFailure"
  /\ circuit.state = "open"
  /\ circuit.opened_at < now
  /\ Len(command_history) = circuit_failure_threshold + 1
  /\ command_history[Len(command_history)].executed_at = now
  /\ command_history[Len(command_history)].success = 0
  /\ command_history[Len(command_history)].category = "query"

----------------------------------------------------------------------------
\* Command traffic and health probes side by side.

MaxTimeTraffic == 3
MaxHistoryTraffic == 3
MaxProbesTraffic == 2

NextTraffic ==
  \/ TickUpTo(MaxTimeTraffic)
  \/ canExecute(FALSE)
  \/ ReportSuccess(MaxHistoryTraffic, FALSE)
  \/ ReportFailure(MaxHistoryTraffic, FALSE)
  \/ ProbeStartUpTo(MaxProbesTraffic)
  \/ \E ok \in BOOLEAN : ProbeDone(ok, FALSE)

SpecTraffic == Init /\ [][NextTraffic]_vars

\* C33: a step that changes the health state, the probe in flight or the
\* logged health checks is a probe and leaves the breaker, its persisted
\* record and the logged outcomes alone; a step that changes the breaker,
\* its record or the logged outcomes is a canExecute, recordSuccess or
\* recordFailure call and leaves the health state, the probe and the logged
\* health checks alone.
C33_TrafficAndProbesApart ==
  [][ /\ (health' # health \/ health_checks' # health_checks \/ probe' # probe)
           => /\ circuit' = circuit
              /\ row' = row
              /\ command_history' = command_history
              /\ probe.inflight => lastOp'.op = "ping"
      /\ (circuit' # circuit \/ row' # row \/ command_history' # command_history)
           => /\ health' = health
              /\ health_checks' = health_checks
              /\ probe' = probe
              /\ lastOp'.op \in {"canExecute", "recordSuccess", "recordFailure"} ]_vars

\* C33 witness: a failed probe has degraded the health state while the
\* breaker was open, and the breaker and its record are still open.
C33_Witness ==
  /\ lastOp.op = "ping"
  /\ lastOp.ret = 0
  /\ health.status = "degraded"
  /\ circuit.state = "open"
  /\ row.state = "open"
  /\ Len(circuit.failures) = circuit_failure_threshold

----------------------------------------------------------------------------
\* The latency ring of a monitor that has probed for a while.

\* No probe starts once this many are on record, and the clock stops here.
MaxChecksRing == 13
MaxTimeRing == 13

\* The numbers of successful probes already made.
RingCounts == {9, 10, 11}

\* The latency of the i-th of those probes, which ended at time i: 0 or 1
\* millisecond in turn, beginning with p.
RingLatency(i, p) == (i + p) % 2

\* The last n elements of seq.
LastN(seq, n) ==
  IF Len(seq) > n THEN SubSeq(seq, Len(seq) - n + 1, Len(seq)) ELSE seq

\* A monitor whose first n probes all succeeded, one per millisecond.
InitRing ==
  /\ \E n \in RingCounts, p \in {0, 1} :
       /\ now = n + 1
       /\ health_checks =
            [ i \in 1..n |-> HealthRow("healthy", RingLatency(i, p), 1, i) ]
       /\ health =
            [ FreshHealth EXCEPT
                !.latency_ms = RingLatency(n, p),
                !.latency_samples =
                  LastN([ i \in 1..n |-> RingLatency(i, p) ], 10),
                !.consecutive_successes = n,
                !.last_check = n,
                !.last_success = n ]
  /\ adaptive_timeout = TRUE
  /\ permissions = DefaultPermissions
  /\ fallback = FALSE
  /\ call = NoCall
  /\ issued = <<>>
  /\ response = NoResponse
  /\ trials = 0
  /\ row = InsertOrIgnore(NoRow, FirstRow(1))
  /\ circuit = hydrateState(row, 1)
  /\ command_history = <<>>
  /\ probe = NoProbe
  /\ loop = FreshLoop
  /\ lastOp = Returned("init", NULL)

NextRing ==
  \/ TickUpTo(MaxTimeRing)
  \/ ProbeStartUpTo(MaxChecksRing)
  \/ \E ok \in BOOLEAN : ProbeDone(ok, FALSE)

SpecRing == InitRing /\ [][NextRing]_vars

\* The latencies of the successful probes on record, in probe order.
SuccessLatencies(checks) ==
  LET good == SelectSeq(checks, LAMBDA r : r.ping_success = 1) IN
  [ i \in 1..Len(good) |-> good[i].latency_ms ]

\* C34: the latency ring never holds more than 10 samples and holds one
\* sample for each of the most recent probes, up to 10.
C34_OneSamplePerProbe ==
  /\ Len(health.latency_samples) <= 10
  /\ Len(health.latency_samples)
       = (IF Len(health_checks) > 10 THEN 10 ELSE Len(health_checks))

\* C34, amended: the latency ring never holds more than 10 samples and holds
\* the latencies of the most recent successful probes, up to 10, in probe
\* order; a failed probe adds no sample and evicts none.
C34_RingOfSuccesses ==
  /\ Len(health.latency_samples) <= 10
  /\ health.latency_samples = LastN(SuccessLatencies(health_checks), 10)

\* C34 witness: a full ring has taken a new sample, evicting its oldest,
\* after a failed probe that left it as it was.
C34_Witness ==
  /\ lastOp.op = "ping"
  /\ lastOp.ret = 1
  /\ Len(health.latency_samples) = 10
  /\ Len(SuccessLatencies(health_checks)) > 10
  /\ \E i \in 1..Len(health_checks) : health_checks[i].ping_success = 0
  /\ health.latency_samples[10] = lastOp.arg

----------------------------------------------------------------------------
\* Callers that ask canExecute(), run their command when allowed, and report
\* its outcome when it ends; several commands may be running at once.

\* No caller asks once this many admitted commands are running.
MaxTrials == 3
MaxTimeTrials == 4

\* A caller asks canExecute() and, when allowed, starts its command.
Admit ==
  /\ trials < MaxTrials
  /\ cbCanExecute(FALSE)
  /\ trials' = IF lastOp'.ret = 1 THEN trials + 1 ELSE trials
  /\ UNCHANGED <<now, cfgVars, call, issued, response, command_history, hmVars>>

\* A running command ends and its caller reports the outcome to the breaker.
Settle(ok) ==
  /\ trials > 0
  /\ trials' = trials - 1
  /\ IF ok
     THEN /\ cbRecordSuccess(FALSE)
          /\ lastOp' = Returned("recordSuccess", NULL)
     ELSE /\ cbRecordFailure(FALSE, FALSE)
          /\ lastOp' = Returned("recordFailure", NULL)
  /\ UNCHANGED <<now, cfgVars, call, issued, response, command_history, hmVars>>

NextTrials ==
  \/ TickUpTo(MaxTimeTrials)
  \/ Admit
  \/ \E ok \in BOOLEAN : Settle(ok)

SpecTrials == Init /\ [][NextTrials]_vars

\* C35: while the breaker is half_open the number of commands admitted and
\* still running stays below the number at which callers stop asking: it
\* is the breaker that limits the trial calls.
C35_TrialsLimited == circuit.state = "half_open" => trials < MaxTrials

----------------------------------------------------------------------------
\* The persisted record against the breaker in memory.

\* C36: between the operations of the breaker, the start of the process
\* among them, the persisted record shows the state the breaker has in
\* memory.
C36_RecordMatchesMemory == row.state = circuit.state

----------------------------------------------------------------------------
\* The steps of the health status.

\* healthy, degraded, unhealthy as levels 0, 1, 2.
StatusLevel(status) ==
  IF status = "healthy" THEN 0 ELSE IF status = "degraded" THEN 1 ELSE 2

\* C37: a probe moves the health status by one level at most: never from
\* healthy to unhealthy nor from unhealthy to healthy.
C37_OneLevelPerProbe ==
  [][ /\ StatusLevel(health'.status) - StatusLevel(health.status) \in {-1, 0, 1}
      /\ health'.status # health.status => lastOp'.op = "ping" ]_vars

\* C37 witness: the third failed probe in a row, started on a healthy
\* monitor, found it degraded and left it unhealthy.
C37_Witness ==
  /\ lastOp.op = "ping"
  /\ lastOp.ret = 0
  /\ health.status = "unhealthy"
  /\ health.consecutive_failures = 3
  /\ Len(health_checks) = 3
  /\ health_checks[1].status = "healthy"
  /\ health_checks[3].status = "degraded"

----------------------------------------------------------------------------
\* The way out of the open state.

\* C38: whenever the breaker is open, in memory or in its record, opened_at
\* is set, and a canExecute() made open_duration or more after opened_at on
\* an open breaker is allowed and leaves the breaker half_open.
C38_OpenHasAWayOut ==
  [][ /\ circuit.state = "open" => circuit.opened_at # NULL
      /\ circuit'.state = "open" => circuit'.opened_at # NULL
      /\ row.state = "open" => row.opened_at # NULL
      /\ row'.state = "open" => row'.opened_at # NULL
      /\ (canExecute(FALSE) /\ circuit.state = "open"
            /\ now >= circuit.opened_at + circuit_open_duration_ms)
           => /\ lastOp'.ret = 1
              /\ circuit'.state = "half_open" ]_vars

\* C38 witness: a breaker restarted while open (its failure list is empty)
\* has been let out of the open state by canExecute(), exactly open_duration
\* after the opened_at of its record.
C38_Witness ==
  /\ lastOp.op = "canExecute"
  /\ lastOp.ret = 1
  /\ circuit.state = "half_open"
  /\ circuit.failures = <<>>
  /\ circuit.opened_at # NULL
  /\ now = circuit.opened_at + circuit_open_duration_ms

----------------------------------------------------------------------------
\* Failures before and after a recovery.

\* The clock stops advancing here in the specification of recoveries.
MaxTimeRecovery == 6

\* One process from its first start: failures, successes and the passing of
\* time, without a restart.
NextRecovery ==
  \/ TickUpTo(MaxTimeRecovery)
  \/ canExecute(FALSE)
  \/ recordSuccess(FALSE)
  \/ \E exclude \in BOOLEAN : recordFailure(exclude, FALSE)

SpecRecovery == Init /\ [][NextRecovery]_vars

\* The record is that of a recovered breaker: persist() wrote it on the
\* half_open -> closed transition, at row.updated_at.
Recovered(r) ==
  r.state = "closed" /\ r.recovery_successes >= circuit_recovery_threshold

\* The failure timestamps of fs from time t on that are inside the window
\* trailing now.
NewInWindow(fs, t) ==
  Cardinality({ i \in 1..Len(fs) :
                  fs[i] >= t /\ fs[i] > now - circuit_failure_window_ms })

\* C39: the success that closes a half-open breaker empties the failure list
\* and clears opened_at, in memory and in the record; a recovered breaker
\* counts no failure from before its recovery; and it opens again only on a
\* failure that brings the failures since the recovery, inside the window, to
\* failure_threshold.
C39_RecoveryStartsAfresh ==
  [][ /\ (recordSuccess(FALSE) /\ circuit.state = "half_open"
            /\ circuit'.state = "closed")
           => /\ circuit'.failures = <<>>
              /\ circuit'.opened_at = NULL
              /\ row'.failure_count = 0
              /\ row'.opened_at = NULL
      /\ (circuit'.state = "closed" /\ Recovered(row'))
           => \A i \in 1..Len(circuit'.failures) :
                circuit'.failures[i] >= row'.updated_at
      /\ (circuit.state = "closed" /\ Recovered(row)
            /\ circuit'.state = "open")
           => /\ recordFailure(FALSE, FALSE)
              /\ NewInWindow(circuit'.failures, row.updated_at)
                   >= circuit_failure_threshold ]_vars

\* C39 witness: a breaker that opened at time 1, recovered open_duration
\* later and has since failed failure_threshold - 1 times is closed, although the failures
\* that opened it are still inside the window.
C39_Witness ==
  /\ lastOp.op = "recordFailure"
  /\ circuit.state = "closed"
  /\ Recovered(row)
  /\ row.updated_at = 1 + circuit_open_duration_ms
  /\ now = row.updated_at
  /\ now - circuit_failure_window_ms < 1
  /\ Len(circuit.failures) = circuit_failure_threshold - 1

----------------------------------------------------------------------------
\* The number of probe loops.

\* The probe loops alive: the pending probe timers, and the check callback
\* awaiting its probe, each of which goes on to set the next timer.
Loops == Cardinality(loop.pending) + (IF loop.checking THEN 1 ELSE 0)

\* C40: at most one probe loop exists: one pending probe timer or one check
\* awaiting its probe, whatever the order of the start and stop calls.
C40_OneLoop ==
  Loops <= 1

====
